---- MODULE Spec2Model ----
(***************************************************************************)
(* Model of the Pool client (src/pools/balancer/Pool.ts) and of the        *)
(* ConfigHelper (src/utils/ConfigHelper.ts) of ocean.js.                   *)
(*                                                                         *)
(* The client keeps no state of its own: what persists between two calls   *)
(* is the parameter object the caller owns (amountsInOutMaxFee, which the  *)
(* swap operations write to).  Every method action is one whole invocation *)
(* of a public method; the network's answers to the contract interactions  *)
(* the method issues are inputs of the action.  The variables record the   *)
(* last invocation: its inputs, the interactions it issued in order, the   *)
(* errors it logged, and how it ended (a value or a raised error).  The    *)
(* caller then takes the result and either drops the parameter object      *)
(* (Settle) or keeps it to make the same kind of swap with it again (Keep).*)
(***************************************************************************)
EXTENDS Integers, Sequences, FiniteSets, TLC

VARIABLES
    op,                  \* name of the method invoked last
    input,               \* the arguments of that invocation, as passed
    ret,                 \* the value the returned promise resolved to
    thrown,              \* message of the error the method raised, "" if none
    calls,               \* contract interactions issued, in order
    logged,              \* messages given to LoggerInstance.error, in order
    amountsInOutMaxFee,  \* the swap parameter object the caller holds
    built,               \* history: that object as the caller built it
    swapsMade,           \* history: number of swaps invoked with it
    configs,             \* the table of known networks of ConfigHelper.ts
    confighelp,          \* the record of getConfig the caller holds
    firstConfig,         \* history: the first getConfig and what followed it
    instance,            \* the fields of the Pool instance
    tasks                \* invocations under way on the instance, step by step

vars == <<op, input, ret, thrown, calls, logged, amountsInOutMaxFee, built, swapsMade,
          configs, confighelp, firstConfig, instance, tasks>>

(***************************************************************************)
(* JavaScript values.  A decimal number is m * 10^e, kept normalised (m is *)
(* not a multiple of ten, zero is 0 * 10^0), so that equal numbers are     *)
(* equal records and eighteen-decimal amounts need no wide integers.       *)
(***************************************************************************)
Null == [t |-> "null"]
Undefined == [t |-> "undefined"]
Str(s) == [t |-> "str", s |-> s]
Bool(b) == [t |-> "bool", b |-> b]
Arr(a) == [t |-> "arr", a |-> a]
Receipt(method) == [t |-> "receipt", of |-> method]
Obj(o) == [t |-> "obj", o |-> o]

RECURSIVE Num(_, _)
Num(m, e) ==
    IF m = 0 THEN [t |-> "num", m |-> 0, e |-> 0]
    ELSE IF m % 10 = 0 THEN Num(m \div 10, e + 1)
    ELSE [t |-> "num", m |-> m, e |-> e]

IsNum(v) == v.t = "num"
Scale(v, d) == Num(v.m, v.e + d)

\* JavaScript truthiness of a value used as a condition
Truthy(v) ==
    CASE v.t = "null" -> FALSE
      [] v.t = "undefined" -> FALSE
      [] v.t = "str" -> v.s # ""
      [] v.t = "bool" -> v.b
      [] v.t = "num" -> TRUE   \* an amount is a non-empty decimal string
      [] OTHER -> TRUE

MaxUint256 ==
    Str("115792089237316195423570985008687907853269984665640564039457584007913129639934")

GASLIMIT_DEFAULT == 1000000

\* web3.utils.toWei / fromWei in the default unit (ether): 18 decimals
toWei(v) == Scale(v, 18)
fromWei(v) == Scale(v, 0 - 18)

(***************************************************************************)
(* The network.  One pool, two pool tokens, the accounts.                  *)
(***************************************************************************)
PoolAddress == "0xPool"
Tokens == {"0xDT", "0xBT"}
Accounts == {"0xAlice", "0xBob"}

\* decimals() answers of a token contract
TokenDecimals == {6, 18}
\* an answer of the network to one interaction: success with a value, or failure
Ok(v) == [ok |-> TRUE, val |-> v]
Failed == [ok |-> FALSE, val |-> Null]
DecimalsAnswers == {Ok(Num(d, 0)) : d \in TokenDecimals} \cup {Failed}
\* raw base-unit amounts the pool answers with
RawUnits == {Num(1, 18), Num(25, 17)}
UnitsAnswers == {Ok(u) : u \in RawUnits} \cup {Failed}
AddressAnswers == {Ok(Str(a)) : a \in Accounts} \cup {Failed}
BoolAnswers == {Ok(Bool(b)) : b \in BOOLEAN} \cup {Failed}
TokensAnswers ==
    {Ok(Arr(<<Str("0xDT"), Str("0xBT")>>)), Ok(Arr(<<Str("0xBT"), Str("0xDT")>>)), Failed}
GasEstimates == {90000}
GasAnswers == {Ok(Num(g, 0)) : g \in GasEstimates} \cup {Failed}

(***************************************************************************)
(* Contract interactions, as the log of an invocation records them.        *)
(***************************************************************************)
\* contract.methods.<method>(args).call() on a binding built from <abi> at <at>
Call(abi, at, method, args, answer) ==
    [kind |-> "call", abi |-> abi, at |-> at, method |-> method, args |-> args,
     from |-> "", gas |-> 0, ok |-> answer.ok, val |-> answer.val]
\* contract.methods.<method>(args).estimateGas({from})
EstimateGas(abi, at, method, args, from, answer) ==
    [kind |-> "estimateGas", abi |-> abi, at |-> at, method |-> method, args |-> args,
     from |-> from, gas |-> 0, ok |-> answer.ok, val |-> answer.val]
\* contract.methods.<method>(args).send({from, gas, gasPrice})
SendTx(abi, at, method, args, from, gas, ok) ==
    [kind |-> "send", abi |-> abi, at |-> at, method |-> method, args |-> args,
     from |-> from, gas |-> gas, ok |-> ok,
     val |-> IF ok THEN Receipt(method) ELSE Null]
\* web3.eth.getGasPrice(), issued by getFairGasPrice
GetGasPrice(ok) ==
    [kind |-> "getGasPrice", abi |-> "", at |-> "", method |-> "getGasPrice",
     args |-> <<>>, from |-> "", gas |-> 0, ok |-> ok, val |-> Null]

(***************************************************************************)
(* How an invocation ends.                                                 *)
(***************************************************************************)
Returns(v, cs, ls) == [ret |-> v, thrown |-> "", calls |-> cs, logged |-> ls]
Throws(msg, cs, ls) == [ret |-> Undefined, thrown |-> msg, calls |-> cs, logged |-> ls]

TypeErrorOfNull == "TypeError: Cannot read properties of null"
FromWeiError == "Please pass numbers as strings or BN objects to avoid precision errors."

\* the state after an invocation that leaves the caller's objects alone;
\* a method is invoked once the caller has taken the result of the one before
Idle == "idle"

NoObject == Undefined

\* no invocation is under way and the caller holds no parameter object
Ready == op = Idle /\ amountsInOutMaxFee = NoObject

Invoke(name, in, out) ==
    /\ op' = name
    /\ input' = in
    /\ ret' = out.ret
    /\ thrown' = out.thrown
    /\ calls' = out.calls
    /\ logged' = out.logged
    /\ UNCHANGED <<amountsInOutMaxFee, built, swapsMade, configs, confighelp, firstConfig,
                 instance, tasks>>

NoInvocation ==
    /\ op' = Idle
    /\ input' = [web3 |-> "web3"]
    /\ ret' = Undefined
    /\ thrown' = ""
    /\ calls' = <<>>
    /\ logged' = <<>>

\* the caller takes the result and drops the parameter object, if it holds one
Settle ==
    /\ op # Idle
    /\ NoInvocation
    /\ amountsInOutMaxFee' = NoObject
    /\ built' = NoObject
    /\ swapsMade' = 0
    /\ confighelp' = NoObject
    /\ firstConfig' = NoObject
    /\ UNCHANGED <<configs, instance, tasks>>

(***************************************************************************)
(* The unit conversion helpers of ../../utils: the token's decimals() are  *)
(* queried per call, 18 is used when the query fails, and the amount is    *)
(* scaled by that power of ten.  Both give the value and the interaction.  *)
(***************************************************************************)
DecimalsUsed(answer) == IF answer.ok THEN answer.val.m * (10 ^ answer.val.e) ELSE 18

amountToUnits(token, amount, answer) ==
    [val |-> Scale(amount, DecimalsUsed(answer)),
     calls |-> <<Call("erc20", token, "decimals", <<>>, answer)>>]

unitsToAmount(token, units, answer) ==
    [val |-> Scale(units, 0 - DecimalsUsed(answer)),
     calls |-> <<Call("erc20", token, "decimals", <<>>, answer)>>]

(***************************************************************************)
(* The read methods.  Each takes the network's answer to its contract call *)
(* (and to the decimals() query of a conversion) and gives the outcome.    *)
(***************************************************************************)
sharesBalance(account, poolAddress, answer) ==
    LET cs == <<Call("pool", poolAddress, "balanceOf", <<Str(account)>>, answer)>>
    IN  IF answer.ok THEN Returns(fromWei(answer.val), cs, <<>>)
        ELSE Returns(Null, cs, <<"ERROR: Failed to get shares of pool">>)

getNumTokens(poolAddress, answer) ==
    LET cs == <<Call("pool", poolAddress, "getNumTokens", <<>>, answer)>>
    IN  IF answer.ok THEN Returns(answer.val, cs, <<>>)
        ELSE Returns(Null, cs, <<"ERROR: Failed to get number of tokens">>)

getPoolSharesTotalSupply(poolAddress, answer) ==
    LET cs == <<Call("pool", poolAddress, "totalSupply", <<>>, answer)>>
    IN  IF answer.ok THEN Returns(fromWei(answer.val), cs, <<>>)
        ELSE Returns(Null, cs, <<"ERROR: Failed to get total supply of pool shares">>)

getCurrentTokens(poolAddress, answer) ==
    LET cs == <<Call("pool", poolAddress, "getCurrentTokens", <<>>, answer)>>
    IN  IF answer.ok THEN Returns(answer.val, cs, <<>>)
        ELSE Returns(Null, cs, <<"ERROR: Failed to get tokens composing this pool">>)

getFinalTokens(poolAddress, answer) ==
    LET cs == <<Call("pool", poolAddress, "getFinalTokens", <<>>, answer)>>
    IN  IF answer.ok THEN Returns(answer.val, cs, <<>>)
        ELSE Returns(Null, cs, <<"ERROR: Failed to get the final tokens composing this pool">>)

getController(poolAddress, answer) ==
    LET cs == <<Call("pool", poolAddress, "getController", <<>>, answer)>>
    IN  IF answer.ok THEN Returns(answer.val, cs, <<>>)
        ELSE Returns(Null, cs, <<"ERROR: Failed to get pool controller address">>)

getBaseToken(poolAddress, answer) ==
    LET cs == <<Call("pool", poolAddress, "getBaseTokenAddress", <<>>, answer)>>
    IN  IF answer.ok THEN Returns(answer.val, cs, <<>>)
        ELSE Returns(Null, cs, <<"ERROR: Failed to get baseToken address">>)

getDatatoken(poolAddress, answer) ==
    LET cs == <<Call("pool", poolAddress, "getDatatokenAddress", <<>>, answer)>>
    IN  IF answer.ok THEN Returns(answer.val, cs, <<>>)
        ELSE Returns(Null, cs, <<"ERROR: Failed to get datatoken address">>)

\* the conversion of the result stands after the try block: on a failed call
\* it is applied to null, which web3's fromWei rejects by raising
getMarketFee(poolAddress, answer) ==
    LET cs == <<Call("pool", poolAddress, "getMarketFee", <<>>, answer)>>
    IN  IF answer.ok THEN Returns(fromWei(answer.val), cs, <<>>)
        ELSE Throws(FromWeiError, cs, <<"ERROR: Failed to get getMarketFee">>)

getMarketFeeCollector(poolAddress, answer) ==
    LET cs == <<Call("pool", poolAddress, "_publishMarketCollector", <<>>, answer)>>
    IN  IF answer.ok THEN Returns(answer.val, cs, <<>>)
        ELSE Returns(Null, cs, <<"ERROR: Failed to get marketFeeCollector address">>)

getOPCCollector(poolAddress, answer) ==
    LET cs == <<Call("pool", poolAddress, "_opcCollector", <<>>, answer)>>
    IN  IF answer.ok THEN Returns(answer.val, cs, <<>>)
        ELSE Returns(Null, cs, <<"ERROR: Failed to get OPF Collector address">>)

isBound(poolAddress, token, answer) ==
    LET cs == <<Call("pool", poolAddress, "isBound", <<Str(token)>>, answer)>>
    IN  IF answer.ok THEN Returns(answer.val, cs, <<>>)
        ELSE Returns(Null, cs, <<"ERROR: Failed to check whether a token bounded to a pool">>)

\* amount.toString() stands after the try block: on a failed call amount is
\* still null and the property access raises a TypeError
getReserve(poolAddress, token, answer, decimals) ==
    LET c == Call("pool", poolAddress, "getBalance", <<Str(token)>>, answer)
        conv == unitsToAmount(token, answer.val, decimals)
    IN  IF answer.ok THEN Returns(conv.val, <<c>> \o conv.calls, <<>>)
        ELSE Throws(TypeErrorOfNull, <<c>>,
                    <<"ERROR: Failed to get how many tokens are in the pool">>)

isFinalized(poolAddress, answer) ==
    LET cs == <<Call("pool", poolAddress, "isFinalized", <<>>, answer)>>
    IN  IF answer.ok THEN Returns(answer.val, cs, <<>>)
        ELSE Returns(Null, cs, <<"ERROR: Failed to check whether pool is finalized">>)

getSwapFee(poolAddress, answer) ==
    LET cs == <<Call("pool", poolAddress, "getSwapFee", <<>>, answer)>>
    IN  IF answer.ok THEN Returns(fromWei(answer.val), cs, <<>>)
        ELSE Returns(Null, cs, <<"ERROR: Failed to get pool fee">>)

getNormalizedWeight(poolAddress, token, answer) ==
    LET cs == <<Call("pool", poolAddress, "getNormalizedWeight", <<Str(token)>>, answer)>>
    IN  IF answer.ok THEN Returns(fromWei(answer.val), cs, <<>>)
        ELSE Returns(Null, cs, <<"ERROR: Failed to get normalized weight of a token">>)

getDenormalizedWeight(poolAddress, token, answer) ==
    LET cs == <<Call("pool", poolAddress, "getDenormalizedWeight", <<Str(token)>>, answer)>>
    IN  IF answer.ok THEN Returns(fromWei(answer.val), cs, <<>>)
        ELSE Returns(Null, cs, <<"ERROR: Failed to get denormalized weight of a token in pool">>)

getTotalDenormalizedWeight(poolAddress, answer) ==
    LET cs == <<Call("pool", poolAddress, "getTotalDenormalizedWeight", <<>>, answer)>>
    IN  IF answer.ok THEN Returns(fromWei(answer.val), cs, <<>>)
        ELSE Returns(Null, cs, <<"ERROR: Failed to get total denormalized weight in pool">>)

getMarketFees(poolAddress, token, answer, decimals) ==
    LET c == Call("pool", poolAddress, "publishMarketFees", <<Str(token)>>, answer)
        conv == unitsToAmount(token, answer.val, decimals)
    IN  IF answer.ok THEN Returns(conv.val, <<c>> \o conv.calls, <<>>)
        ELSE Returns(Null, <<c>>, <<"ERROR: Failed to get market fees for a token">>)

\* no result variable: the catch block falls off the end of the method, which
\* then resolves to undefined.  The contract method queried is getCurrentOPCFees.
getCurrentMarketFees(poolAddress, answer) ==
    LET cs == <<Call("pool", poolAddress, "getCurrentOPCFees", <<>>, answer)>>
    IN  IF answer.ok THEN Returns(answer.val, cs, <<>>)
        ELSE Returns(Undefined, cs, <<"ERROR: Failed to get community fees for a token">>)

getCurrentOPCFees(poolAddress, answer) ==
    LET cs == <<Call("pool", poolAddress, "getCurrentOPCFees", <<>>, answer)>>
    IN  IF answer.ok THEN Returns(answer.val, cs, <<>>)
        ELSE Returns(Undefined, cs, <<"ERROR: Failed to get community fees for a token">>)

getCommunityFees(poolAddress, token, answer, decimals) ==
    LET c == Call("pool", poolAddress, "communityFees", <<Str(token)>>, answer)
        conv == unitsToAmount(token, answer.val, decimals)
    IN  IF answer.ok THEN Returns(conv.val, <<c>> \o conv.calls, <<>>)
        ELSE Returns(Null, <<c>>, <<"ERROR: Failed to get community fees for a token">>)

(***************************************************************************)
(* One action per read method: the caller's arguments and the network's    *)
(* answers are chosen freely.                                              *)
(***************************************************************************)
SharesBalance ==
    /\ Ready
    /\ \E account \in Accounts, answer \in UnitsAnswers :
        Invoke("sharesBalance", [account |-> account],
               sharesBalance(account, PoolAddress, answer))

GetNumTokens ==
    /\ Ready
    /\ \E answer \in {Ok(Num(2, 0)), Failed} :
        Invoke("getNumTokens", [poolAddress |-> PoolAddress],
               getNumTokens(PoolAddress, answer))

GetPoolSharesTotalSupply ==
    /\ Ready
    /\ \E answer \in UnitsAnswers :
        Invoke("getPoolSharesTotalSupply", [poolAddress |-> PoolAddress],
               getPoolSharesTotalSupply(PoolAddress, answer))

GetCurrentTokens ==
    /\ Ready
    /\ \E answer \in TokensAnswers :
        Invoke("getCurrentTokens", [poolAddress |-> PoolAddress],
               getCurrentTokens(PoolAddress, answer))

GetFinalTokens ==
    /\ Ready
    /\ \E answer \in TokensAnswers :
        Invoke("getFinalTokens", [poolAddress |-> PoolAddress],
               getFinalTokens(PoolAddress, answer))

GetController ==
    /\ Ready
    /\ \E answer \in AddressAnswers :
        Invoke("getController", [poolAddress |-> PoolAddress],
               getController(PoolAddress, answer))

GetBaseToken ==
    /\ Ready
    /\ \E answer \in {Ok(Str("0xBT")), Failed} :
        Invoke("getBaseToken", [poolAddress |-> PoolAddress],
               getBaseToken(PoolAddress, answer))

GetDatatoken ==
    /\ Ready
    /\ \E answer \in {Ok(Str("0xDT")), Failed} :
        Invoke("getDatatoken", [poolAddress |-> PoolAddress],
               getDatatoken(PoolAddress, answer))

GetMarketFee ==
    /\ Ready
    /\ \E answer \in UnitsAnswers :
        Invoke("getMarketFee", [poolAddress |-> PoolAddress],
               getMarketFee(PoolAddress, answer))

GetMarketFeeCollector ==
    /\ Ready
    /\ \E answer \in AddressAnswers :
        Invoke("getMarketFeeCollector", [poolAddress |-> PoolAddress],
               getMarketFeeCollector(PoolAddress, answer))

GetOPCCollector ==
    /\ Ready
    /\ \E answer \in AddressAnswers :
        Invoke("getOPCCollector", [poolAddress |-> PoolAddress],
               getOPCCollector(PoolAddress, answer))

IsBound ==
    /\ Ready
    /\ \E token \in Tokens, answer \in BoolAnswers :
        Invoke("isBound", [token |-> token], isBound(PoolAddress, token, answer))

GetReserve ==
    /\ Ready
    /\ \E token \in Tokens, answer \in UnitsAnswers, decimals \in DecimalsAnswers :
        /\ answer.ok \/ decimals = Failed
        /\ Invoke("getReserve", [token |-> token],
                  getReserve(PoolAddress, token, answer, decimals))

IsFinalized ==
    /\ Ready
    /\ \E answer \in BoolAnswers :
        Invoke("isFinalized", [poolAddress |-> PoolAddress],
               isFinalized(PoolAddress, answer))

GetSwapFee ==
    /\ Ready
    /\ \E answer \in UnitsAnswers :
        Invoke("getSwapFee", [poolAddress |-> PoolAddress],
               getSwapFee(PoolAddress, answer))

GetNormalizedWeight ==
    /\ Ready
    /\ \E token \in Tokens, answer \in UnitsAnswers :
        Invoke("getNormalizedWeight", [token |-> token],
               getNormalizedWeight(PoolAddress, token, answer))

GetDenormalizedWeight ==
    /\ Ready
    /\ \E token \in Tokens, answer \in UnitsAnswers :
        Invoke("getDenormalizedWeight", [token |-> token],
               getDenormalizedWeight(PoolAddress, token, answer))

GetTotalDenormalizedWeight ==
    /\ Ready
    /\ \E answer \in UnitsAnswers :
        Invoke("getTotalDenormalizedWeight", [poolAddress |-> PoolAddress],
               getTotalDenormalizedWeight(PoolAddress, answer))

GetMarketFees ==
    /\ Ready
    /\ \E token \in Tokens, answer \in UnitsAnswers, decimals \in DecimalsAnswers :
        /\ answer.ok \/ decimals = Failed
        /\ Invoke("getMarketFees", [token |-> token],
                  getMarketFees(PoolAddress, token, answer, decimals))

\* the fee record the pool answers with, reduced to its first token and amount
FeesAnswers == {Ok(Arr(<<Str("0xBT"), u>>)) : u \in RawUnits} \cup {Failed}

GetCurrentMarketFees ==
    /\ Ready
    /\ \E answer \in FeesAnswers :
        Invoke("getCurrentMarketFees", [poolAddress |-> PoolAddress],
               getCurrentMarketFees(PoolAddress, answer))

GetCurrentOPCFees ==
    /\ Ready
    /\ \E answer \in FeesAnswers :
        Invoke("getCurrentOPCFees", [poolAddress |-> PoolAddress],
               getCurrentOPCFees(PoolAddress, answer))

GetCommunityFees ==
    /\ Ready
    /\ \E token \in Tokens, answer \in UnitsAnswers, decimals \in DecimalsAnswers :
        /\ answer.ok \/ decimals = Failed
        /\ Invoke("getCommunityFees", [token |-> token],
                  getCommunityFees(PoolAddress, token, answer, decimals))

Reads ==
    \/ SharesBalance
    \/ GetNumTokens
    \/ GetPoolSharesTotalSupply
    \/ GetCurrentTokens
    \/ GetFinalTokens
    \/ GetController
    \/ GetBaseToken
    \/ GetDatatoken
    \/ GetMarketFee
    \/ GetMarketFeeCollector
    \/ GetOPCCollector
    \/ IsBound
    \/ GetReserve
    \/ IsFinalized
    \/ GetSwapFee
    \/ GetNormalizedWeight
    \/ GetDenormalizedWeight
    \/ GetTotalDenormalizedWeight
    \/ GetMarketFees
    \/ GetCurrentMarketFees
    \/ GetCurrentOPCFees
    \/ GetCommunityFees

(***************************************************************************)
(* Gas estimation.  Each est* method binds the pool (or takes the caller's *)
(* contractInstance), asks the network for an estimate and falls back to   *)
(* GASLIMIT_DEFAULT when that raises.  Each gives the gas (val) and the    *)
(* interaction it issued.                                                  *)
(***************************************************************************)
NoInstance == ""
ContractInstances == {NoInstance, "contractInstance"}
\* contractInstance || new Contract(<abi>, poolAddress)
Binding(contractInstance, abi) ==
    IF contractInstance # NoInstance THEN contractInstance ELSE abi

GasOf(v) == v.m * (10 ^ v.e)

\* variant: the failure of estimateGas is not replaced by the default
EstGas_NoDefault(c) ==
    [val |-> IF c.ok THEN GasOf(c.val) ELSE 0, calls |-> <<c>>]

\* the try/catch around estimateGas
EstGas(c) ==
    [val |-> IF c.ok THEN GasOf(c.val) ELSE GASLIMIT_DEFAULT, calls |-> <<c>>]

\* the binding is built from the ERC20 template ABI, the fee is passed as given
estSetSwapFee(account, poolAddress, fee, contractInstance, answer) ==
    EstGas(EstimateGas(Binding(contractInstance, "erc20"), poolAddress, "setSwapFee",
                       <<fee>>, account, answer))

estCollectOPC(address, poolAddress, contractInstance, answer) ==
    EstGas(EstimateGas(Binding(contractInstance, "pool"), poolAddress, "collectOPC",
                       <<>>, address, answer))

estCollectMarketFee(address, poolAddress, contractInstance, answer) ==
    EstGas(EstimateGas(Binding(contractInstance, "pool"), poolAddress, "collectMarketFee",
                       <<>>, address, answer))

estUpdatePublishMarketFee(address, poolAddress, newPublishMarketAddress, newPublishMarketSwapFee, contractInstance, answer) ==
    EstGas(EstimateGas(Binding(contractInstance, "pool"), poolAddress,
                       "updatePublishMarketFee",
                       <<Str(newPublishMarketAddress), newPublishMarketSwapFee>>,
                       address, answer))

\* amountsInOutMaxFee.maxPrice ? toWei(maxPrice) : MaxUint256
\* variant: an unset maxPrice is converted like a set one
MaxPriceOf_NoSentinel(amounts) ==
    IF Truthy(amounts.maxPrice) THEN toWei(amounts.maxPrice) ELSE Num(0, 0)

MaxPriceOf(amounts) ==
    IF Truthy(amounts.maxPrice) THEN toWei(amounts.maxPrice) ELSE MaxUint256

TokenArgs(tokenInOutMarket) ==
    Arr(<<Str(tokenInOutMarket.tokenIn), Str(tokenInOutMarket.tokenOut),
          Str(tokenInOutMarket.marketFeeAddress)>>)

estSwapExactAmountIn(address, poolAddress, tokenInOutMarket, amounts, contractInstance, answer) ==
    EstGas(EstimateGas(Binding(contractInstance, "pool"), poolAddress, "swapExactAmountIn",
                       <<TokenArgs(tokenInOutMarket),
                         Arr(<<amounts.tokenAmountIn, amounts.minAmountOut,
                               MaxPriceOf(amounts), toWei(amounts.swapMarketFee)>>)>>,
                       address, answer))

estSwapExactAmountOut(address, poolAddress, tokenInOutMarket, amounts, contractInstance, answer) ==
    EstGas(EstimateGas(Binding(contractInstance, "pool"), poolAddress, "swapExactAmountOut",
                       <<TokenArgs(tokenInOutMarket),
                         Arr(<<amounts.maxAmountIn, amounts.tokenAmountOut,
                               MaxPriceOf(amounts), toWei(amounts.swapMarketFee)>>)>>,
                       address, answer))

estJoinPool(address, poolAddress, poolAmountOut, maxAmountsIn, contractInstance, answer) ==
    EstGas(EstimateGas(Binding(contractInstance, "pool"), poolAddress, "joinPool",
                       <<poolAmountOut, Arr(maxAmountsIn)>>, address, answer))

estExitPool(address, poolAddress, poolAmountIn, minAmountsOut, contractInstance, answer) ==
    EstGas(EstimateGas(Binding(contractInstance, "pool"), poolAddress, "exitPool",
                       <<poolAmountIn, Arr(minAmountsOut)>>, address, answer))

estJoinswapExternAmountIn(address, poolAddress, tokenAmountIn, minPoolAmountOut, contractInstance, answer) ==
    EstGas(EstimateGas(Binding(contractInstance, "pool"), poolAddress,
                       "joinswapExternAmountIn", <<tokenAmountIn, minPoolAmountOut>>,
                       address, answer))

estExitswapPoolAmountIn(address, poolAddress, poolAmountIn, minTokenAmountOut, contractInstance, answer) ==
    EstGas(EstimateGas(Binding(contractInstance, "pool"), poolAddress,
                       "exitswapPoolAmountIn", <<poolAmountIn, minTokenAmountOut>>,
                       address, answer))

(***************************************************************************)
(* Submission.  The send stands in a try block whose argument list awaits  *)
(* getFairGasPrice first: when the gas price cannot be read, or the send   *)
(* raises, the error is logged and the result stays null.                  *)
(***************************************************************************)
\* what the network answers to a submission: the gas price read, then the send
SendAnswers == {[gasPrice |-> TRUE, send |-> TRUE], [gasPrice |-> TRUE, send |-> FALSE],
                [gasPrice |-> FALSE, send |-> FALSE]}

\* variant: a failed send is tried once more
TrySend_Retries(poolAddress, method, args, from, gas, answer, message) ==
    IF ~answer.gasPrice
    THEN Returns(Null, <<GetGasPrice(FALSE)>>, <<message>>)
    ELSE LET tx == SendTx("pool", poolAddress, method, args, from, gas, answer.send)
         IN  IF answer.send
             THEN Returns(tx.val, <<GetGasPrice(TRUE), tx>>, <<>>)
             ELSE Returns(Null, <<GetGasPrice(TRUE), tx, GetGasPrice(TRUE), tx>>,
                          <<message, message>>)

\* variant: the failure of send is raised to the caller
TrySend_Raises(poolAddress, method, args, from, gas, answer, message) ==
    IF ~answer.gasPrice
    THEN Returns(Null, <<GetGasPrice(FALSE)>>, <<message>>)
    ELSE LET tx == SendTx("pool", poolAddress, method, args, from, gas, answer.send)
         IN  IF answer.send
             THEN Returns(tx.val, <<GetGasPrice(TRUE), tx>>, <<>>)
             ELSE Throws(message, <<GetGasPrice(TRUE), tx>>, <<>>)

TrySend(poolAddress, method, args, from, gas, answer, message) ==
    IF ~answer.gasPrice
    THEN Returns(Null, <<GetGasPrice(FALSE)>>, <<message>>)
    ELSE LET tx == SendTx("pool", poolAddress, method, args, from, gas, answer.send)
         IN  IF answer.send
             THEN Returns(tx.val, <<GetGasPrice(TRUE), tx>>, <<>>)
             ELSE Returns(Null, <<GetGasPrice(TRUE), tx>>, <<message>>)

\* an outcome with the interactions and log lines of the steps before it
After(cs, ls, out) ==
    [out EXCEPT !.calls = cs \o out.calls, !.logged = ls \o out.logged]

\* variant: the fee is sent as the caller gave it
setSwapFee_RawFee(account, poolAddress, fee, estAnswer, sendAnswer) ==
    LET est == estSetSwapFee(account, poolAddress, fee, NoInstance, estAnswer)
    IN  After(est.calls, <<>>,
              TrySend(poolAddress, "setSwapFee", <<fee>>, account, est.val,
                      sendAnswer, "ERROR: Failed to set pool swap fee"))

setSwapFee(account, poolAddress, fee, estAnswer, sendAnswer) ==
    LET est == estSetSwapFee(account, poolAddress, fee, NoInstance, estAnswer)
    IN  After(est.calls, <<>>,
              TrySend(poolAddress, "setSwapFee", <<toWei(fee)>>, account, est.val,
                      sendAnswer, "ERROR: Failed to set pool swap fee"))

\* variant: a failed gas estimation ends the method
collectOPC_StopsOnFailedEstimate(address, poolAddress, estAnswer, sendAnswer) ==
    LET est == estCollectOPC(address, poolAddress, NoInstance, estAnswer)
    IN  IF ~estAnswer.ok
        THEN Returns(Null, est.calls, <<"ERROR: Failed to swap exact amount in">>)
        ELSE After(est.calls, <<>>,
                   TrySend(poolAddress, "collectOPC", <<>>, address, est.val + 1,
                           sendAnswer, "ERROR: Failed to swap exact amount in"))

\* variant: the caller is compared with the pool's OPC collector first
collectOPC_ChecksCollector(address, poolAddress, estAnswer, sendAnswer) ==
    LET collector == getOPCCollector(poolAddress, Ok(Str("0xAlice")))
        est == estCollectOPC(address, poolAddress, NoInstance, estAnswer)
    IN  IF collector.ret # Str(address)
        THEN Throws("Caller is not MarketFeeCollector", collector.calls, collector.logged)
        ELSE After(collector.calls \o est.calls, collector.logged,
                   TrySend(poolAddress, "collectOPC", <<>>, address, est.val + 1,
                           sendAnswer, "ERROR: Failed to swap exact amount in"))

collectOPC(address, poolAddress, estAnswer, sendAnswer) ==
    LET est == estCollectOPC(address, poolAddress, NoInstance, estAnswer)
    IN  After(est.calls, <<>>,
              TrySend(poolAddress, "collectOPC", <<>>, address, est.val + 1,
                      sendAnswer, "ERROR: Failed to swap exact amount in"))

NotCollector == "Caller is not MarketFeeCollector"

\* variant: the collector is compared after the gas estimation
collectMarketFee_ChecksLate(address, poolAddress, collectorAnswer, estAnswer, sendAnswer) ==
    LET collector == getMarketFeeCollector(poolAddress, collectorAnswer)
        est == estCollectMarketFee(address, poolAddress, NoInstance, estAnswer)
    IN  IF collector.ret # Str(address)
        THEN Throws(NotCollector, est.calls \o collector.calls, collector.logged)
        ELSE After(est.calls \o collector.calls, collector.logged,
                   TrySend(poolAddress, "collectMarketFee", <<>>, address, est.val + 1,
                           sendAnswer, "ERROR: Failed to swap exact amount in"))

collectMarketFee(address, poolAddress, collectorAnswer, estAnswer, sendAnswer) ==
    LET collector == getMarketFeeCollector(poolAddress, collectorAnswer)
        est == estCollectMarketFee(address, poolAddress, NoInstance, estAnswer)
    IN  IF collector.ret # Str(address)
        THEN Throws(NotCollector, collector.calls, collector.logged)
        ELSE After(collector.calls \o est.calls, collector.logged,
                   TrySend(poolAddress, "collectMarketFee", <<>>, address, est.val + 1,
                           sendAnswer, "ERROR: Failed to swap exact amount in"))

\* variant: the comparison with the collector is inverted
updatePublishMarketFee_Inverted(address, poolAddress, newPublishMarketAddress, newPublishMarketSwapFee, collectorAnswer, estAnswer, sendAnswer) ==
    LET collector == getMarketFeeCollector(poolAddress, collectorAnswer)
        est == estUpdatePublishMarketFee(address, poolAddress, newPublishMarketAddress,
                                         toWei(newPublishMarketSwapFee), NoInstance,
                                         estAnswer)
    IN  IF collector.ret = Str(address)
        THEN Throws(NotCollector, collector.calls, collector.logged)
        ELSE After(collector.calls \o est.calls, collector.logged,
                   TrySend(poolAddress, "updatePublishMarketFee",
                           <<Str(newPublishMarketAddress), toWei(newPublishMarketSwapFee)>>,
                           address, est.val + 1, sendAnswer,
                           "ERROR: Failed to updatePublishMarketFee"))

updatePublishMarketFee(address, poolAddress, newPublishMarketAddress, newPublishMarketSwapFee, collectorAnswer, estAnswer, sendAnswer) ==
    LET collector == getMarketFeeCollector(poolAddress, collectorAnswer)
        est == estUpdatePublishMarketFee(address, poolAddress, newPublishMarketAddress,
                                         toWei(newPublishMarketSwapFee), NoInstance,
                                         estAnswer)
    IN  IF collector.ret # Str(address)
        THEN Throws(NotCollector, collector.calls, collector.logged)
        ELSE After(collector.calls \o est.calls, collector.logged,
                   TrySend(poolAddress, "updatePublishMarketFee",
                           <<Str(newPublishMarketAddress), toWei(newPublishMarketSwapFee)>>,
                           address, est.val + 1, sendAnswer,
                           "ERROR: Failed to updatePublishMarketFee"))

(***************************************************************************)
(* Swaps.  The converted amounts are assigned to the fields of the         *)
(* caller's amountsInOutMaxFee object, which is then handed to the         *)
(* estimation and read again for the submission.  Each gives the outcome   *)
(* (out) and the object as the method leaves it (amounts).                 *)
(***************************************************************************)
swapExactAmountIn(address, poolAddress, tokenInOutMarket, amounts, decimalsIn, decimalsOut, estAnswer, sendAnswer) ==
    LET unitsIn == amountToUnits(tokenInOutMarket.tokenIn, amounts.tokenAmountIn,
                                 decimalsIn)
        unitsOut == amountToUnits(tokenInOutMarket.tokenOut, amounts.minAmountOut,
                                  decimalsOut)
        written == [amounts EXCEPT !.tokenAmountIn = unitsIn.val,
                                   !.minAmountOut = unitsOut.val]
        est == estSwapExactAmountIn(address, poolAddress, tokenInOutMarket, written,
                                    NoInstance, estAnswer)
    IN  [out |-> After(unitsIn.calls \o unitsOut.calls \o est.calls, <<>>,
                       TrySend(poolAddress, "swapExactAmountIn",
                               <<TokenArgs(tokenInOutMarket),
                                 Arr(<<written.tokenAmountIn, written.minAmountOut,
                                       MaxPriceOf(written),
                                       toWei(written.swapMarketFee)>>)>>,
                               address, est.val + 1, sendAnswer,
                               "ERROR: Failed to swap exact amount in")),
         amounts |-> written]

swapExactAmountOut(account, poolAddress, tokenInOutMarket, amounts, decimalsIn, decimalsOut, estAnswer, sendAnswer) ==
    LET unitsIn == amountToUnits(tokenInOutMarket.tokenIn, amounts.maxAmountIn,
                                 decimalsIn)
        unitsOut == amountToUnits(tokenInOutMarket.tokenOut, amounts.tokenAmountOut,
                                  decimalsOut)
        written == [amounts EXCEPT !.maxAmountIn = unitsIn.val,
                                   !.tokenAmountOut = unitsOut.val]
        est == estSwapExactAmountOut(account, poolAddress, tokenInOutMarket, written,
                                     NoInstance, estAnswer)
    IN  [out |-> After(unitsIn.calls \o unitsOut.calls \o est.calls, <<>>,
                       TrySend(poolAddress, "swapExactAmountOut",
                               <<TokenArgs(tokenInOutMarket),
                                 Arr(<<written.maxAmountIn, written.tokenAmountOut,
                                       MaxPriceOf(written),
                                       toWei(written.swapMarketFee)>>)>>,
                               account, est.val + 1, sendAnswer,
                               "ERROR: Failed to swap exact amount out")),
         amounts |-> written]

(***************************************************************************)
(* Dual-sided liquidity.  The pool's final tokens are read, then the first *)
(* two amounts are converted, each with the token at the same position.    *)
(* tokens[i] on a failed (null) lookup raises a TypeError.                 *)
(***************************************************************************)
\* for (let i = 0; i < 2; i++) push(await amountToUnits(tokens[i], amounts[i]))
\* variant: every caller entry is converted, not the first two only
ConvertByPosition_AllEntries(tokens, amounts, decimals0, decimals1) ==
    LET u0 == amountToUnits(tokens[1].s, amounts[1], decimals0)
        u1 == amountToUnits(tokens[2].s, amounts[2], decimals1)
    IN  [val |-> <<u0.val, u1.val>>
                 \o [k \in 1..(Len(amounts) - 2) |-> Scale(amounts[k + 2], 18)],
         calls |-> u0.calls \o u1.calls]

ConvertByPosition(tokens, amounts, decimals0, decimals1) ==
    LET u0 == amountToUnits(tokens[1].s, amounts[1], decimals0)
        u1 == amountToUnits(tokens[2].s, amounts[2], decimals1)
    IN  [val |-> <<u0.val, u1.val>>, calls |-> u0.calls \o u1.calls]

joinPool(address, poolAddress, poolAmountOut, maxAmountsIn, tokensAnswer, decimals0, decimals1, estAnswer, sendAnswer) ==
    LET tokens == getFinalTokens(poolAddress, tokensAnswer)
        weiMaxAmountsIn == ConvertByPosition(tokens.ret.a, maxAmountsIn,
                                             decimals0, decimals1)
        est == estJoinPool(address, poolAddress, toWei(poolAmountOut),
                           weiMaxAmountsIn.val, NoInstance, estAnswer)
    IN  IF tokens.ret = Null
        THEN Throws(TypeErrorOfNull, tokens.calls, tokens.logged)
        ELSE After(tokens.calls \o weiMaxAmountsIn.calls \o est.calls, tokens.logged,
                   TrySend(poolAddress, "joinPool",
                           <<toWei(poolAmountOut), Arr(weiMaxAmountsIn.val)>>,
                           address, est.val + 1, sendAnswer,
                           "ERROR: Failed to join pool"))

\* the gas limit sent is the estimate itself
exitPool(account, poolAddress, poolAmountIn, minAmountsOut, tokensAnswer, decimals0, decimals1, estAnswer, sendAnswer) ==
    LET tokens == getFinalTokens(poolAddress, tokensAnswer)
        weiMinAmountsOut == ConvertByPosition(tokens.ret.a, minAmountsOut,
                                              decimals0, decimals1)
        est == estExitPool(account, poolAddress, toWei(poolAmountIn),
                           weiMinAmountsOut.val, NoInstance, estAnswer)
    IN  IF tokens.ret = Null
        THEN Throws(TypeErrorOfNull, tokens.calls, tokens.logged)
        ELSE After(tokens.calls \o weiMinAmountsOut.calls \o est.calls, tokens.logged,
                   TrySend(poolAddress, "exitPool",
                           <<toWei(poolAmountIn), Arr(weiMinAmountsOut.val)>>,
                           account, est.val, sendAnswer,
                           "ERROR: Failed to exit pool"))

(***************************************************************************)
(* Single-sided liquidity against the pool's base token.                   *)
(***************************************************************************)
\* the address a getter resolved to, as handed on to amountToUnits
AddressOf(v) == IF v = Null THEN "null" ELSE v.s

\* variant: the amount is converted for the pool's datatoken
joinswapExternAmountIn_Datatoken(account, poolAddress, tokenAmountIn, minPoolAmountOut, baseAnswer, decimals, estAnswer, sendAnswer) ==
    LET base == getDatatoken(poolAddress, baseAnswer)
        amountInFormatted == amountToUnits(AddressOf(base.ret), tokenAmountIn, decimals)
        est == estJoinswapExternAmountIn(account, poolAddress, amountInFormatted.val,
                                         toWei(minPoolAmountOut), NoInstance, estAnswer)
    IN  After(base.calls \o amountInFormatted.calls \o est.calls, base.logged,
              TrySend(poolAddress, "joinswapExternAmountIn",
                      <<amountInFormatted.val, toWei(minPoolAmountOut)>>,
                      account, est.val + 1, sendAnswer,
                      "ERROR: Failed to pay tokens in order to join the pool"))

joinswapExternAmountIn(account, poolAddress, tokenAmountIn, minPoolAmountOut, baseAnswer, decimals, estAnswer, sendAnswer) ==
    LET base == getBaseToken(poolAddress, baseAnswer)
        amountInFormatted == amountToUnits(AddressOf(base.ret), tokenAmountIn, decimals)
        est == estJoinswapExternAmountIn(account, poolAddress, amountInFormatted.val,
                                         toWei(minPoolAmountOut), NoInstance, estAnswer)
    IN  After(base.calls \o amountInFormatted.calls \o est.calls, base.logged,
              TrySend(poolAddress, "joinswapExternAmountIn",
                      <<amountInFormatted.val, toWei(minPoolAmountOut)>>,
                      account, est.val + 1, sendAnswer,
                      "ERROR: Failed to pay tokens in order to join the pool"))

exitswapPoolAmountIn(account, poolAddress, poolAmountIn, minTokenAmountOut, baseAnswer, decimals, estAnswer, sendAnswer) ==
    LET base == getBaseToken(poolAddress, baseAnswer)
        minTokenOutFormatted == amountToUnits(AddressOf(base.ret), minTokenAmountOut,
                                              decimals)
        est == estExitswapPoolAmountIn(account, poolAddress, toWei(poolAmountIn),
                                       minTokenOutFormatted.val, NoInstance, estAnswer)
    IN  After(base.calls \o minTokenOutFormatted.calls \o est.calls, base.logged,
              TrySend(poolAddress, "exitswapPoolAmountIn",
                      <<toWei(poolAmountIn), minTokenOutFormatted.val>>,
                      account, est.val + 1, sendAnswer,
                      "ERROR: Failed to pay pool shares into the pool"))

(***************************************************************************)
(* getSpotPrice.  decimals() of both tokens are read by the method itself, *)
(* 18 being kept for a read that fails.  A failed price call leaves price  *)
(* null, which the arithmetic that follows takes as zero.  The arithmetic  *)
(* is done on decimal numbers exactly.                                     *)
(***************************************************************************)
\* variant: a failed decimals() read leaves no decimals to scale by
DecimalsOr18_NoDefault(answer) == IF answer.ok THEN answer.val.m * (10 ^ answer.val.e) ELSE 0

DecimalsOr18(answer) == IF answer.ok THEN answer.val.m * (10 ^ answer.val.e) ELSE 18

DecimalsLogged(answer) ==
    IF answer.ok THEN <<>> ELSE <<"ERROR: FAILED TO CALL DECIMALS(), USING 18">>

\* variant: the difference scales by the same magnitude in both directions
SpotPriceExponent_Linear(decimalsTokenIn, decimalsTokenOut) ==
    IF decimalsTokenIn > decimalsTokenOut
    THEN 0 - (decimalsTokenIn - decimalsTokenOut) - decimalsTokenOut
    ELSE (decimalsTokenOut - decimalsTokenIn) - decimalsTokenOut

\* the power of ten the raw price is scaled by, both divisions included
SpotPriceExponent(decimalsTokenIn, decimalsTokenOut) ==
    IF decimalsTokenIn > decimalsTokenOut
    THEN 0 - (decimalsTokenIn - decimalsTokenOut) - decimalsTokenOut
    ELSE 2 * (decimalsTokenOut - decimalsTokenIn) - decimalsTokenOut

getSpotPrice(poolAddress, tokenIn, tokenOut, swapMarketFee, decimalsIn, decimalsOut, answer) ==
    LET decimalsTokenIn == DecimalsOr18(decimalsIn)
        decimalsTokenOut == DecimalsOr18(decimalsOut)
        price == IF answer.ok THEN answer.val ELSE Num(0, 0)
        cs == <<Call("erc20", tokenIn, "decimals", <<>>, decimalsIn),
                Call("erc20", tokenOut, "decimals", <<>>, decimalsOut),
                Call("pool", poolAddress, "getSpotPrice",
                     <<Str(tokenIn), Str(tokenOut), toWei(swapMarketFee)>>, answer)>>
        ls == DecimalsLogged(decimalsIn) \o DecimalsLogged(decimalsOut)
              \o (IF answer.ok THEN <<>>
                  ELSE <<"ERROR: Failed to get spot price of swapping tokenIn to tokenOut">>)
    IN  Returns(Scale(price, SpotPriceExponent(decimalsTokenIn, decimalsTokenOut)), cs, ls)

(***************************************************************************)
(* Quotes.  The amount is converted before the try block; the quote call   *)
(* and the five conversions of its result stand inside it.  Within one     *)
(* invocation a token answers decimals() the same way each time.           *)
(***************************************************************************)
\* the five conversions of a quote result whose principal is field tokenAmountField
QuoteAmounts(tokenIn, tokenOut, result, tokenAmountField, decimalsIn, decimalsOut) ==
    LET tokenAmount == unitsToAmount(tokenOut, result[tokenAmountField], decimalsOut)
        lp == unitsToAmount(tokenIn, result.lpFeeAmount, decimalsIn)
        ocean == unitsToAmount(tokenIn, result.oceanFeeAmount, decimalsIn)
        publish == unitsToAmount(tokenIn, result.publishMarketSwapFeeAmount, decimalsIn)
        consume == unitsToAmount(tokenIn, result.consumeMarketSwapFeeAmount, decimalsIn)
    IN  [val |-> Obj([tokenAmount |-> tokenAmount.val,
                      liquidityProviderSwapFeeAmount |-> lp.val,
                      oceanFeeAmount |-> ocean.val,
                      publishMarketSwapFeeAmount |-> publish.val,
                      consumeMarketSwapFeeAmount |-> consume.val]),
         calls |-> tokenAmount.calls \o lp.calls \o ocean.calls \o publish.calls
                   \o consume.calls]

getAmountInExactOut(poolAddress, tokenIn, tokenOut, tokenAmountOut, swapMarketFee, decimalsIn, decimalsOut, answer) ==
    LET amountOutFormatted == amountToUnits(tokenOut, tokenAmountOut, decimalsOut)
        cs == amountOutFormatted.calls
              \o <<Call("pool", poolAddress, "getAmountInExactOut",
                        <<Str(tokenIn), Str(tokenOut), amountOutFormatted.val,
                          toWei(swapMarketFee)>>, answer)>>
        amount == QuoteAmounts(tokenIn, tokenOut, answer.val.o, "tokenAmountIn",
                               decimalsIn, decimalsOut)
    IN  IF answer.ok THEN Returns(amount.val, cs \o amount.calls, <<>>)
        ELSE Returns(Null, cs, <<"ERROR: Failed to calcInGivenOut">>)

\* variant: the fee components are handed on in base units
getAmountOutExactIn_RawFees(poolAddress, tokenIn, tokenOut, tokenAmountIn, swapMarketFee, decimalsIn, decimalsOut, answer) ==
    LET amountInFormatted == amountToUnits(tokenIn, tokenAmountIn, decimalsIn)
        cs == amountInFormatted.calls
              \o <<Call("pool", poolAddress, "getAmountOutExactIn",
                        <<Str(tokenIn), Str(tokenOut), amountInFormatted.val,
                          toWei(swapMarketFee)>>, answer)>>
        amount == QuoteAmounts(tokenIn, tokenOut, answer.val.o, "tokenAmountOut",
                               decimalsIn, decimalsOut)
    IN  IF answer.ok
        THEN Returns(Obj([amount.val.o EXCEPT
                            !.liquidityProviderSwapFeeAmount = answer.val.o.lpFeeAmount,
                            !.oceanFeeAmount = answer.val.o.oceanFeeAmount]),
                     cs \o amount.calls, <<>>)
        ELSE Returns(Null, cs, <<"ERROR: Failed to calcOutGivenIn">>)

getAmountOutExactIn(poolAddress, tokenIn, tokenOut, tokenAmountIn, swapMarketFee, decimalsIn, decimalsOut, answer) ==
    LET amountInFormatted == amountToUnits(tokenIn, tokenAmountIn, decimalsIn)
        cs == amountInFormatted.calls
              \o <<Call("pool", poolAddress, "getAmountOutExactIn",
                        <<Str(tokenIn), Str(tokenOut), amountInFormatted.val,
                          toWei(swapMarketFee)>>, answer)>>
        amount == QuoteAmounts(tokenIn, tokenOut, answer.val.o, "tokenAmountOut",
                               decimalsIn, decimalsOut)
    IN  IF answer.ok THEN Returns(amount.val, cs \o amount.calls, <<>>)
        ELSE Returns(Null, cs, <<"ERROR: Failed to calcOutGivenIn">>)

(***************************************************************************)
(* ConfigHelper.  A table entry that does not name a property gives        *)
(* undefined when the property is read.  getConfig gives the record and    *)
(* the table entry the record is the same object as (0: a new object).     *)
(***************************************************************************)
ConfigsDeclared ==
    << [network |-> Str("development"), url |-> Str("http://localhost:8545"),
        factoryAddress |-> Null, metadataStoreUri |-> Str("http://127.0.0.1:5000"),
        providerUri |-> Str("http://127.0.0.1:8030")],
       [network |-> Str("pacific"), url |-> Str("https://pacific.oceanprotocol.com"),
        factoryAddress |-> Str("0x1234"),
        oceanTokenAddress |-> Str("0x012578f9381e876A9E2a9111Dfd436FF91A451ae"),
        metadataStoreUri |-> Null, providerUri |-> Null],
       [network |-> Str("rinkeby"),
        url |-> Str("https://rinkeby.infura.io/v3/YOUR-PROJECT-ID"),
        factoryAddress |-> Str("0xcDfEe5D80041224cDCe9AE2334E85B3236385EA3"),
        oceanTokenAddress |-> Str("0x8967BCF84170c91B0d24D4302C2376283b0B3a07"),
        metadataStoreUri |-> Str("https://aquarius.rinkeby.v3.dev-ocean.com/"),
        providerUri |-> Str("https://provider.rinkeby.v3.dev-ocean.com/")],
       [network |-> Str("mainnet"), url |-> Str("https://mainnet.infura.io/v3/YOUR-PROJECT-ID"),
        factoryAddress |-> Str("0x1234"),
        oceanTokenAddress |-> Str("0x985dd3d42de1e256d09e1c10f112bccb8015ad41"),
        metadataStoreUri |-> Null, providerUri |-> Null] >>

ConfigFields == {"factoryAddress", "oceanTokenAddress", "url", "metadataStoreUri", "providerUri"}

\* reading property f of object o
Prop(o, f) == IF f \in DOMAIN o THEN o[f] ELSE Undefined

\* new ConfigHelper() with the unknown values filled in
UnknownConfig(network) ==
    [t |-> "ConfigHelper", factoryAddress |-> Null, url |-> Null, network |-> Str(network),
     oceanTokenAddress |-> Null, metadataStoreUri |-> Null, providerUri |-> Null]

\* configs.find((c) => c.network === network): the index found, 0 if none
FindConfig(network) ==
    LET known == {i \in DOMAIN configs : configs[i].network = Str(network)}
    IN  IF known = {} THEN 0 ELSE CHOOSE i \in known : \A j \in known : i <= j

\* the records copied from entry knownconfig of the table
KnownConfig(knownconfig) ==
    [t |-> "ConfigHelper",
     factoryAddress |-> Prop(configs[knownconfig], "factoryAddress"),
     oceanTokenAddress |-> Prop(configs[knownconfig], "oceanTokenAddress"),
     url |-> Prop(configs[knownconfig], "url"),
     network |-> Prop(configs[knownconfig], "network"),
     metadataStoreUri |-> Prop(configs[knownconfig], "metadataStoreUri"),
     providerUri |-> Prop(configs[knownconfig], "providerUri")]

\* the network names the invocations are made with
ConfigNames ==
    {"development", "pacific", "rinkeby", "mainnet", "Development", " development",
     "mainnet ", "ropsten"}
\* lower case without surrounding whitespace, for the names above
Trimmed(network) ==
    CASE network = "Development" -> "development"
      [] network = " development" -> "development"
      [] network = "mainnet " -> "mainnet"
      [] OTHER -> network

\* variant: the network of an unknown name is left unfilled
getConfig_NoEcho(network) ==
    LET knownconfig == FindConfig(network)
    IN  [record |-> IF knownconfig = 0 THEN [UnknownConfig(network) EXCEPT !.network = Null]
                    ELSE KnownConfig(knownconfig),
         entry |-> 0]

\* variant: names are matched without regard to case and surrounding whitespace
getConfig_LooseMatch(network) ==
    LET knownconfig == FindConfig(Trimmed(network))
    IN  [record |-> IF knownconfig = 0 THEN UnknownConfig(network)
                    ELSE KnownConfig(knownconfig),
         entry |-> 0]

\* variant: a known name is answered with the table entry itself
getConfig_ReturnsEntry(network) ==
    LET knownconfig == FindConfig(network)
    IN  [record |-> IF knownconfig = 0 THEN UnknownConfig(network)
                    ELSE KnownConfig(knownconfig),
         entry |-> knownconfig]

getConfig(network) ==
    LET knownconfig == FindConfig(network)
    IN  [record |-> IF knownconfig = 0 THEN UnknownConfig(network)
                    ELSE KnownConfig(knownconfig),
         entry |-> 0]

(***************************************************************************)
(* Event signatures.  An ABI is a list of entries; each method finds the   *)
(* first entry with its event's name and the type 'event' and has web3     *)
(* encode it.  The ABI is the one given to the constructor, or the pool    *)
(* template when none is given.                                            *)
(***************************************************************************)
AbiItem(name, type, inputs) == [t |-> "abiitem", name |-> name, type |-> type, inputs |-> inputs]

\* the pool template's entries that matter here: its events among its functions
PoolTemplateAbi ==
    << AbiItem("swapExactAmountIn", "function", <<"address[3]", "uint256[4]">>),
       AbiItem("LOG_SWAP", "event", <<"address", "address", "address", "uint256", "uint256">>),
       AbiItem("LOG_JOIN", "event", <<"address", "address", "uint256">>),
       AbiItem("LOG_EXIT", "event", <<"address", "address", "uint256">>),
       AbiItem("LOG_BPT", "event", <<"uint256">>),
       AbiItem("exitPool", "function", <<"uint256", "uint256[]">>) >>

\* the constructor's choice of this.poolAbi
PoolAbiOf(poolAbi) == IF Truthy(poolAbi) THEN poolAbi.a ELSE PoolTemplateAbi

\* variant: the entry is found by its name alone
FindEvent_AnyType(abi, name) ==
    LET found == {i \in DOMAIN abi : abi[i].name = name}
    IN  IF found = {} THEN Undefined
        ELSE abi[CHOOSE i \in found : \A j \in found : i <= j]

\* abi.find(o => o.name === name && o.type === 'event'): the first such entry
FindEvent(abi, name) ==
    LET found == {i \in DOMAIN abi : abi[i].name = name /\ abi[i].type = "event"}
    IN  IF found = {} THEN Undefined
        ELSE abi[CHOOSE i \in found : \A j \in found : i <= j]

\* the topic of an event: the hash of its name and parameter types
TopicOf(eventdata) == [t |-> "topic", signature |-> <<eventdata.name>> \o eventdata.inputs]

\* what web3 does when handed undefined instead of an entry
MissingEntryOutcomes == {"raises", "null"}
EncodeError == "TypeError: encodeEventSignature of undefined"

\* web3.eth.abi.encodeEventSignature(eventdata), as an entry of the log
EncodeEventSignature(eventdata) ==
    [kind |-> "encodeEventSignature", abi |-> "", at |-> "",
     method |-> "encodeEventSignature", args |-> <<eventdata>>, from |-> "", gas |-> 0,
     ok |-> eventdata # Undefined,
     val |-> IF eventdata # Undefined THEN TopicOf(eventdata) ELSE Null]

encodeEventSignature(eventdata, missing) ==
    LET c == EncodeEventSignature(eventdata)
    IN  IF c.ok \/ missing = "null" THEN Returns(c.val, <<c>>, <<>>)
        ELSE Throws(EncodeError, <<c>>, <<>>)

getSwapEventSignature(poolAbi, missing) ==
    encodeEventSignature(FindEvent(poolAbi, "LOG_SWAP"), missing)

getJoinEventSignature(poolAbi, missing) ==
    encodeEventSignature(FindEvent(poolAbi, "LOG_JOIN"), missing)

getExitEventSignature(poolAbi, missing) ==
    encodeEventSignature(FindEvent(poolAbi, "LOG_EXIT"), missing)

(***************************************************************************)
(* Invocations that overlap on one instance.  An invocation is cut at its  *)
(* awaits: it begins (the pool binding is built from this.poolAbi), awaits *)
(* its estimation (which reads this.poolAbi and this.GASLIMIT_DEFAULT),    *)
(* awaits the gas price, awaits the send, and is done.                     *)
(***************************************************************************)
InstanceConstructed ==
    [poolAbi |-> "pool", web3 |-> "web3", config |-> "config",
     GASLIMIT_DEFAULT |-> GASLIMIT_DEFAULT]

Tasks == {1, 2}
TaskMethods == {"collectOPC", "setSwapFee"}
NoTask ==
    [pc |-> "none", method |-> "", address |-> "", fee |-> Null, pool |-> "",
     estAnswer |-> Failed, sendAnswer |-> [gasPrice |-> FALSE, send |-> FALSE],
     estGas |-> 0, calls |-> <<>>, logged |-> <<>>, ret |-> Undefined,
     overlapped |-> FALSE]
InFlight(task) == task.pc \in {"estimate", "gasPrice", "send"}

EstimateAbi(task) == IF task.method = "setSwapFee" THEN "erc20" ELSE instance.poolAbi
EstimateArgs(task) == IF task.method = "setSwapFee" THEN <<task.fee>> ELSE <<>>
SendArgs(task) == IF task.method = "setSwapFee" THEN <<toWei(task.fee)>> ELSE <<>>
GasSent(task) == IF task.method = "setSwapFee" THEN task.estGas ELSE task.estGas + 1
FailureMessage(task) ==
    IF task.method = "setSwapFee" THEN "ERROR: Failed to set pool swap fee"
    ELSE "ERROR: Failed to swap exact amount in"

\* variant: the estimation of setSwapFee keeps the ABI it binds in the instance
InstanceAfterEstimate_KeepsAbi(task) ==
    IF task.method = "setSwapFee" THEN [instance EXCEPT !.poolAbi = "erc20"] ELSE instance

\* the fields of the instance once an estimation has run: no method assigns to them
InstanceAfterEstimate(task) == instance

\* the same invocation run on its own against the answers the task received
Alone(task) ==
    IF task.method = "setSwapFee"
    THEN setSwapFee(task.address, PoolAddress, task.fee, task.estAnswer, task.sendAnswer)
    ELSE collectOPC(task.address, PoolAddress, task.estAnswer, task.sendAnswer)

(***************************************************************************)
(* The caller's inputs.                                                    *)
(***************************************************************************)
\* decimal amounts in human units: 2.5 and 1
Amounts == {Num(25, 0 - 1), Num(1, 0)}
\* fees as decimal fractions: 0.1 and 0.01
Fees == {Num(1, 0 - 1), Num(1, 0 - 2)}
\* maxPrice: absent, null, empty, or set (also to "0")
UnsetMaxPrices == {Undefined, Null, Str("")}
MaxPrices == UnsetMaxPrices \cup {Num(2, 0)}
MarketFeeAddress == "0xMarket"
TokenInOutMarkets ==
    {[tokenIn |-> i, tokenOut |-> o, marketFeeAddress |-> MarketFeeAddress] :
        <<i, o>> \in {<<"0xDT", "0xBT">>, <<"0xBT", "0xDT">>}}
AmountsInMaxFee ==
    {[tokenAmountIn |-> Num(25, 0 - 1), minAmountOut |-> Num(1, 0), maxPrice |-> p,
      swapMarketFee |-> Num(1, 0 - 1)] : p \in MaxPrices}
AmountsOutMaxFee ==
    {[maxAmountIn |-> Num(25, 0 - 1), tokenAmountOut |-> Num(1, 0), maxPrice |-> p,
      swapMarketFee |-> Num(1, 0 - 1)] : p \in MaxPrices}
IsAmountsIn(amounts) == "tokenAmountIn" \in DOMAIN amounts
IsAmountsOut(amounts) == "maxAmountIn" \in DOMAIN amounts
\* arrays of two or three amounts
AmountArrays ==
    {<<Num(25, 0 - 1), Num(1, 0)>>, <<Num(1, 0), Num(1, 0)>>,
     <<Num(1, 0), Num(25, 0 - 1), Num(7, 0)>>}

\* how many times the caller keeps a parameter object for another swap
MaxReuse == 1

Init ==
    /\ op = Idle
    /\ input = [web3 |-> "web3"]
    /\ ret = Undefined
    /\ thrown = ""
    /\ calls = <<>>
    /\ logged = <<>>
    /\ amountsInOutMaxFee = NoObject
    /\ built = NoObject
    /\ swapsMade = 0
    /\ configs = ConfigsDeclared
    /\ confighelp = NoObject
    /\ firstConfig = NoObject
    /\ instance = InstanceConstructed
    /\ tasks = [t \in Tasks |-> NoTask]

(***************************************************************************)
(* One action per gas-estimation method, invoked on its own.               *)
(***************************************************************************)
EstSetSwapFee ==
    /\ Ready
    /\ \E account \in Accounts, fee \in Fees, ci \in ContractInstances,
       answer \in GasAnswers :
        LET est == estSetSwapFee(account, PoolAddress, fee, ci, answer)
        IN  Invoke("estSetSwapFee", [account |-> account, fee |-> fee],
                   Returns(Num(est.val, 0), est.calls, <<>>))

EstCollectOPC ==
    /\ Ready
    /\ \E address \in Accounts, ci \in ContractInstances, answer \in GasAnswers :
        LET est == estCollectOPC(address, PoolAddress, ci, answer)
        IN  Invoke("estCollectOPC", [address |-> address],
                   Returns(Num(est.val, 0), est.calls, <<>>))

EstCollectMarketFee ==
    /\ Ready
    /\ \E address \in Accounts, ci \in ContractInstances, answer \in GasAnswers :
        LET est == estCollectMarketFee(address, PoolAddress, ci, answer)
        IN  Invoke("estCollectMarketFee", [address |-> address],
                   Returns(Num(est.val, 0), est.calls, <<>>))

EstUpdatePublishMarketFee ==
    /\ Ready
    /\ \E address \in Accounts, new \in Accounts, fee \in Fees, ci \in ContractInstances,
       answer \in GasAnswers :
        LET est == estUpdatePublishMarketFee(address, PoolAddress, new, toWei(fee), ci,
                                             answer)
        IN  Invoke("estUpdatePublishMarketFee", [address |-> address],
                   Returns(Num(est.val, 0), est.calls, <<>>))

EstSwapExactAmountIn ==
    /\ Ready
    /\ \E address \in Accounts, tokens \in TokenInOutMarkets, amounts \in AmountsInMaxFee,
       ci \in ContractInstances, answer \in GasAnswers :
        LET est == estSwapExactAmountIn(address, PoolAddress, tokens, amounts, ci, answer)
        IN  Invoke("estSwapExactAmountIn",
                   [address |-> address, amountsInOutMaxFee |-> amounts],
                   Returns(Num(est.val, 0), est.calls, <<>>))

EstSwapExactAmountOut ==
    /\ Ready
    /\ \E address \in Accounts, tokens \in TokenInOutMarkets, amounts \in AmountsOutMaxFee,
       ci \in ContractInstances, answer \in GasAnswers :
        LET est == estSwapExactAmountOut(address, PoolAddress, tokens, amounts, ci, answer)
        IN  Invoke("estSwapExactAmountOut",
                   [address |-> address, amountsInOutMaxFee |-> amounts],
                   Returns(Num(est.val, 0), est.calls, <<>>))

EstJoinPool ==
    /\ Ready
    /\ \E address \in Accounts, amounts \in AmountArrays, ci \in ContractInstances,
       answer \in GasAnswers :
        LET est == estJoinPool(address, PoolAddress, Num(1, 18), amounts, ci, answer)
        IN  Invoke("estJoinPool", [address |-> address],
                   Returns(Num(est.val, 0), est.calls, <<>>))

EstExitPool ==
    /\ Ready
    /\ \E address \in Accounts, amounts \in AmountArrays, ci \in ContractInstances,
       answer \in GasAnswers :
        LET est == estExitPool(address, PoolAddress, Num(1, 18), amounts, ci, answer)
        IN  Invoke("estExitPool", [address |-> address],
                   Returns(Num(est.val, 0), est.calls, <<>>))

EstJoinswapExternAmountIn ==
    /\ Ready
    /\ \E address \in Accounts, amount \in Amounts, ci \in ContractInstances,
       answer \in GasAnswers :
        LET est == estJoinswapExternAmountIn(address, PoolAddress, amount, Num(1, 18),
                                             ci, answer)
        IN  Invoke("estJoinswapExternAmountIn", [address |-> address],
                   Returns(Num(est.val, 0), est.calls, <<>>))

EstExitswapPoolAmountIn ==
    /\ Ready
    /\ \E address \in Accounts, amount \in Amounts, ci \in ContractInstances,
       answer \in GasAnswers :
        LET est == estExitswapPoolAmountIn(address, PoolAddress, Num(1, 18), amount,
                                           ci, answer)
        IN  Invoke("estExitswapPoolAmountIn", [address |-> address],
                   Returns(Num(est.val, 0), est.calls, <<>>))

Estimates ==
    \/ EstSetSwapFee
    \/ EstCollectOPC
    \/ EstCollectMarketFee
    \/ EstUpdatePublishMarketFee
    \/ EstSwapExactAmountIn
    \/ EstSwapExactAmountOut
    \/ EstJoinPool
    \/ EstExitPool
    \/ EstJoinswapExternAmountIn
    \/ EstExitswapPoolAmountIn

(***************************************************************************)
(* One action per mutating method.                                         *)
(***************************************************************************)
SetSwapFee ==
    /\ Ready
    /\ \E account \in Accounts, fee \in Fees, estAnswer \in GasAnswers,
       sendAnswer \in SendAnswers :
        Invoke("setSwapFee", [address |-> account, fee |-> fee],
               setSwapFee(account, PoolAddress, fee, estAnswer, sendAnswer))

CollectOPC ==
    /\ Ready
    /\ \E address \in Accounts, estAnswer \in GasAnswers, sendAnswer \in SendAnswers :
        Invoke("collectOPC", [address |-> address],
               collectOPC(address, PoolAddress, estAnswer, sendAnswer))

CollectMarketFee ==
    /\ Ready
    /\ \E address \in Accounts, collectorAnswer \in AddressAnswers,
       estAnswer \in GasAnswers, sendAnswer \in SendAnswers :
        Invoke("collectMarketFee", [address |-> address],
               collectMarketFee(address, PoolAddress, collectorAnswer, estAnswer,
                                sendAnswer))

UpdatePublishMarketFee ==
    /\ Ready
    /\ \E address \in Accounts, new \in Accounts, fee \in Fees,
       collectorAnswer \in AddressAnswers, estAnswer \in GasAnswers,
       sendAnswer \in SendAnswers :
        Invoke("updatePublishMarketFee",
               [address |-> address, newPublishMarketAddress |-> new,
                newPublishMarketSwapFee |-> fee],
               updatePublishMarketFee(address, PoolAddress, new, fee, collectorAnswer,
                                      estAnswer, sendAnswer))

\* a swap is invoked with an object the caller builds for it, or with the one
\* kept from the swap before, and leaves its mark on that object
ObjectsToPass(fresh) ==
    IF amountsInOutMaxFee = NoObject THEN fresh ELSE {amountsInOutMaxFee}

InvokeSwap(name, in, result) ==
    /\ op' = name
    /\ input' = in
    /\ ret' = result.out.ret
    /\ thrown' = result.out.thrown
    /\ calls' = result.out.calls
    /\ logged' = result.out.logged
    /\ amountsInOutMaxFee' = result.amounts
    /\ built' = IF amountsInOutMaxFee = NoObject THEN in.amountsInOutMaxFee ELSE built
    /\ swapsMade' = swapsMade + 1
    /\ UNCHANGED <<configs, confighelp, firstConfig, instance, tasks>>

\* the caller takes the result of a swap and keeps the parameter object
Keep ==
    /\ op \in {"swapExactAmountIn", "swapExactAmountOut"}
    /\ swapsMade <= MaxReuse
    /\ NoInvocation
    /\ UNCHANGED <<amountsInOutMaxFee, built, swapsMade, configs, confighelp, firstConfig,
                 instance, tasks>>

SwapExactAmountIn ==
    /\ op = Idle
    /\ \E address \in Accounts, tokens \in TokenInOutMarkets,
       decimalsIn \in DecimalsAnswers, decimalsOut \in DecimalsAnswers,
       estAnswer \in GasAnswers, sendAnswer \in SendAnswers,
       amounts \in ObjectsToPass(AmountsInMaxFee) :
        /\ IsAmountsIn(amounts)
        /\ InvokeSwap("swapExactAmountIn",
                      [address |-> address, tokenInOutMarket |-> tokens,
                       amountsInOutMaxFee |-> amounts],
                      swapExactAmountIn(address, PoolAddress, tokens, amounts,
                                        decimalsIn, decimalsOut, estAnswer, sendAnswer))

SwapExactAmountOut ==
    /\ op = Idle
    /\ \E account \in Accounts, tokens \in TokenInOutMarkets,
       decimalsIn \in DecimalsAnswers, decimalsOut \in DecimalsAnswers,
       estAnswer \in GasAnswers, sendAnswer \in SendAnswers,
       amounts \in ObjectsToPass(AmountsOutMaxFee) :
        /\ IsAmountsOut(amounts)
        /\ InvokeSwap("swapExactAmountOut",
                      [address |-> account, tokenInOutMarket |-> tokens,
                       amountsInOutMaxFee |-> amounts],
                      swapExactAmountOut(account, PoolAddress, tokens, amounts,
                                         decimalsIn, decimalsOut, estAnswer, sendAnswer))

JoinPool ==
    /\ Ready
    /\ \E address \in Accounts, maxAmountsIn \in AmountArrays,
       tokensAnswer \in TokensAnswers,
       decimals0 \in DecimalsAnswers, decimals1 \in DecimalsAnswers,
       estAnswer \in GasAnswers, sendAnswer \in SendAnswers :
        Invoke("joinPool",
               [address |-> address, poolAmountOut |-> Num(1, 0),
                amounts |-> maxAmountsIn],
               joinPool(address, PoolAddress, Num(1, 0), maxAmountsIn, tokensAnswer,
                        decimals0, decimals1, estAnswer, sendAnswer))

ExitPool ==
    /\ Ready
    /\ \E account \in Accounts, minAmountsOut \in AmountArrays,
       tokensAnswer \in TokensAnswers,
       decimals0 \in DecimalsAnswers, decimals1 \in DecimalsAnswers,
       estAnswer \in GasAnswers, sendAnswer \in SendAnswers :
        Invoke("exitPool",
               [address |-> account, poolAmountIn |-> Num(1, 0),
                amounts |-> minAmountsOut],
               exitPool(account, PoolAddress, Num(1, 0), minAmountsOut, tokensAnswer,
                        decimals0, decimals1, estAnswer, sendAnswer))

\* answers of the pool's getBaseToken call
BaseTokenAnswers == {Ok(Str(t)) : t \in Tokens} \cup {Failed}

JoinswapExternAmountIn ==
    /\ Ready
    /\ \E account \in Accounts, tokenAmountIn \in Amounts,
       baseAnswer \in BaseTokenAnswers, decimals \in DecimalsAnswers,
       estAnswer \in GasAnswers, sendAnswer \in SendAnswers :
        /\ baseAnswer.ok \/ decimals = Failed
        /\ Invoke("joinswapExternAmountIn",
                  [address |-> account, tokenAmountIn |-> tokenAmountIn,
                   minPoolAmountOut |-> Num(1, 0)],
                  joinswapExternAmountIn(account, PoolAddress, tokenAmountIn, Num(1, 0),
                                         baseAnswer, decimals, estAnswer, sendAnswer))

ExitswapPoolAmountIn ==
    /\ Ready
    /\ \E account \in Accounts, minTokenAmountOut \in Amounts,
       baseAnswer \in BaseTokenAnswers, decimals \in DecimalsAnswers,
       estAnswer \in GasAnswers, sendAnswer \in SendAnswers :
        /\ baseAnswer.ok \/ decimals = Failed
        /\ Invoke("exitswapPoolAmountIn",
                  [address |-> account, poolAmountIn |-> Num(1, 0),
                   minTokenAmountOut |-> minTokenAmountOut],
                  exitswapPoolAmountIn(account, PoolAddress, Num(1, 0), minTokenAmountOut,
                                       baseAnswer, decimals, estAnswer, sendAnswer))

Writes ==
    \/ SetSwapFee
    \/ CollectOPC
    \/ CollectMarketFee
    \/ UpdatePublishMarketFee
    \/ SwapExactAmountIn
    \/ SwapExactAmountOut
    \/ JoinPool
    \/ ExitPool
    \/ JoinswapExternAmountIn
    \/ ExitswapPoolAmountIn

(***************************************************************************)
(* Prices.                                                                 *)
(***************************************************************************)
\* decimals() answers met by getSpotPrice
SpotDecimals == {6, 8, 18}
SpotDecimalsAnswers == {Ok(Num(d, 0)) : d \in SpotDecimals} \cup {Failed}
\* raw spot prices the pool answers with
PriceAnswers == {Ok(Num(2, 18)), Ok(Num(15, 17)), Failed}
TokenPairs == {<<"0xDT", "0xBT">>, <<"0xBT", "0xDT">>}

GetSpotPrice ==
    /\ Ready
    /\ \E pair \in TokenPairs, swapMarketFee \in Fees,
       decimalsIn \in SpotDecimalsAnswers, decimalsOut \in SpotDecimalsAnswers,
       answer \in PriceAnswers :
        Invoke("getSpotPrice",
               [tokenIn |-> pair[1], tokenOut |-> pair[2], swapMarketFee |-> swapMarketFee],
               getSpotPrice(PoolAddress, pair[1], pair[2], swapMarketFee,
                            decimalsIn, decimalsOut, answer))

\* raw results of the pool's quote calls
QuoteFees ==
    [lpFeeAmount |-> Num(1, 15), oceanFeeAmount |-> Num(2, 15),
     publishMarketSwapFeeAmount |-> Num(3, 15), consumeMarketSwapFeeAmount |-> Num(4, 15)]
QuoteResult(tokenAmountField, units) ==
    Obj([f \in DOMAIN QuoteFees \cup {tokenAmountField} |->
            IF f = tokenAmountField THEN units ELSE QuoteFees[f]])
AmountInAnswers == {Ok(QuoteResult("tokenAmountIn", u)) : u \in RawUnits} \cup {Failed}
AmountOutAnswers == {Ok(QuoteResult("tokenAmountOut", u)) : u \in RawUnits} \cup {Failed}

GetAmountInExactOut ==
    /\ Ready
    /\ \E pair \in TokenPairs, tokenAmountOut \in Amounts,
       decimalsIn \in DecimalsAnswers, decimalsOut \in DecimalsAnswers,
       answer \in AmountInAnswers :
        Invoke("getAmountInExactOut",
               [tokenIn |-> pair[1], tokenOut |-> pair[2], tokenAmountOut |-> tokenAmountOut,
                swapMarketFee |-> Num(1, 0 - 1)],
               getAmountInExactOut(PoolAddress, pair[1], pair[2], tokenAmountOut,
                                   Num(1, 0 - 1), decimalsIn, decimalsOut, answer))

GetAmountOutExactIn ==
    /\ Ready
    /\ \E pair \in TokenPairs, tokenAmountIn \in Amounts,
       decimalsIn \in DecimalsAnswers, decimalsOut \in DecimalsAnswers,
       answer \in AmountOutAnswers :
        Invoke("getAmountOutExactIn",
               [tokenIn |-> pair[1], tokenOut |-> pair[2], tokenAmountIn |-> tokenAmountIn,
                swapMarketFee |-> Num(1, 0 - 1)],
               getAmountOutExactIn(PoolAddress, pair[1], pair[2], tokenAmountIn,
                                   Num(1, 0 - 1), decimalsIn, decimalsOut, answer))

Prices ==
    \/ GetSpotPrice
    \/ GetAmountInExactOut
    \/ GetAmountOutExactIn

(***************************************************************************)
(* The event signatures, on an instance constructed with the ABI drawn.    *)
(***************************************************************************)
\* ABIs given to the constructor: none, and lists with entries that share a
\* name or a type with the events looked for
PoolAbis ==
    { Null,
      Arr(<< AbiItem("LOG_SWAP", "function", <<"address", "uint256">>),
             AbiItem("LOG_CALL", "event", <<"bytes4", "address", "bytes">>),
             AbiItem("LOG_SWAP", "event", <<"address", "uint256">>),
             AbiItem("LOG_JOIN", "function", <<"address">>),
             AbiItem("LOG_EXIT", "event", <<"address">>),
             AbiItem("LOG_JOIN", "event", <<"address">>),
             AbiItem("LOG_SWAP", "event", <<"address", "address">>) >>),
      Arr(<< AbiItem("LOG_EXIT", "function", <<"address">>),
             AbiItem("LOG_JOIN", "event", <<"address", "uint256">>),
             AbiItem("Transfer", "event", <<"address", "address", "uint256">>) >>) }

GetSwapEventSignature ==
    /\ Ready
    /\ \E poolAbi \in PoolAbis, missing \in MissingEntryOutcomes :
        Invoke("getSwapEventSignature", [poolAbi |-> poolAbi],
               getSwapEventSignature(PoolAbiOf(poolAbi), missing))

GetJoinEventSignature ==
    /\ Ready
    /\ \E poolAbi \in PoolAbis, missing \in MissingEntryOutcomes :
        Invoke("getJoinEventSignature", [poolAbi |-> poolAbi],
               getJoinEventSignature(PoolAbiOf(poolAbi), missing))

GetExitEventSignature ==
    /\ Ready
    /\ \E poolAbi \in PoolAbis, missing \in MissingEntryOutcomes :
        Invoke("getExitEventSignature", [poolAbi |-> poolAbi],
               getExitEventSignature(PoolAbiOf(poolAbi), missing))

EventSignatures ==
    \/ GetSwapEventSignature
    \/ GetJoinEventSignature
    \/ GetExitEventSignature

(***************************************************************************)
(* ConfigHelper.getConfig, and the caller writing to a record it was       *)
(* given.  A write to an object that is a table entry is a write to the    *)
(* table.                                                                  *)
(***************************************************************************)
GetConfig ==
    /\ op \in {Idle, "getConfig"}
    /\ amountsInOutMaxFee = NoObject
    /\ \E network \in ConfigNames :
        LET result == getConfig(network)
        IN  /\ op' = "getConfig"
            /\ input' = [network |-> network]
            /\ ret' = result.record
            /\ thrown' = ""
            /\ calls' = <<>>
            /\ logged' = <<>>
            /\ confighelp' = result
            /\ firstConfig' =
                IF firstConfig = NoObject
                THEN [network |-> network, record |-> result.record,
                      written |-> FALSE, again |-> FALSE]
                ELSE [firstConfig EXCEPT
                        !.again = @ \/ (firstConfig.written /\ network = firstConfig.network)]
            /\ UNCHANGED <<amountsInOutMaxFee, built, swapsMade, configs, instance, tasks>>

WrittenFields == {"url", "network", "oceanTokenAddress"}

WriteConfig ==
    /\ confighelp # NoObject
    /\ \E f \in WrittenFields :
        /\ confighelp.record[f] # Str("written")
        /\ confighelp' = [confighelp EXCEPT !.record[f] = Str("written")]
        /\ configs' = IF confighelp.entry = 0 THEN configs
                      ELSE [configs EXCEPT ![confighelp.entry] =
                                [g \in DOMAIN @ \cup {f} |->
                                    IF g = f THEN Str("written") ELSE @[g]]]
        /\ firstConfig' = [firstConfig EXCEPT !.written = TRUE]
        /\ UNCHANGED <<op, input, ret, thrown, calls, logged,
                       amountsInOutMaxFee, built, swapsMade, instance, tasks>>

Configs ==
    \/ GetConfig
    \/ WriteConfig

(***************************************************************************)
(* The steps of overlapping invocations.                                   *)
(***************************************************************************)
OnlyTasks ==
    UNCHANGED <<op, input, ret, thrown, calls, logged, amountsInOutMaxFee, built,
                swapsMade, configs, confighelp, firstConfig>>

Begin(t) ==
    /\ tasks[t].pc = "none"
    /\ \E method \in TaskMethods, address \in Accounts :
        LET others == \E u \in Tasks \ {t} : InFlight(tasks[u])
        IN  tasks' = [u \in Tasks |->
                        IF u = t
                        THEN [NoTask EXCEPT !.pc = "estimate", !.method = method,
                                            !.address = address,
                                            !.fee = IF method = "setSwapFee"
                                                    THEN Num(1, 0 - 1) ELSE Null,
                                            !.pool = instance.poolAbi,
                                            !.overlapped = others]
                        ELSE IF InFlight(tasks[u])
                             THEN [tasks[u] EXCEPT !.overlapped = TRUE]
                             ELSE tasks[u]]
    /\ UNCHANGED instance
    /\ OnlyTasks

Estimate(t) ==
    /\ tasks[t].pc = "estimate"
    /\ \E answer \in GasAnswers :
        LET c == EstimateGas(EstimateAbi(tasks[t]), PoolAddress, tasks[t].method,
                             EstimateArgs(tasks[t]), tasks[t].address, answer)
        IN  tasks' = [tasks EXCEPT ![t] =
                        [@ EXCEPT !.pc = "gasPrice", !.estAnswer = answer,
                                  !.estGas = IF answer.ok THEN GasOf(answer.val)
                                             ELSE instance.GASLIMIT_DEFAULT,
                                  !.calls = @ \o <<c>>]]
    /\ instance' = InstanceAfterEstimate(tasks[t])
    /\ OnlyTasks

GasPrice(t) ==
    /\ tasks[t].pc = "gasPrice"
    /\ \E ok \in BOOLEAN :
        tasks' = [tasks EXCEPT ![t] =
                    IF ok
                    THEN [@ EXCEPT !.pc = "send", !.calls = @ \o <<GetGasPrice(TRUE)>>]
                    ELSE [@ EXCEPT !.pc = "done", !.calls = @ \o <<GetGasPrice(FALSE)>>,
                                   !.logged = <<FailureMessage(tasks[t])>>,
                                   !.ret = Null]]
    /\ UNCHANGED instance
    /\ OnlyTasks

Send(t) ==
    /\ tasks[t].pc = "send"
    /\ \E ok \in BOOLEAN :
        LET tx == SendTx(tasks[t].pool, PoolAddress, tasks[t].method, SendArgs(tasks[t]),
                         tasks[t].address, GasSent(tasks[t]), ok)
        IN  tasks' = [tasks EXCEPT ![t] =
                        [@ EXCEPT !.pc = "done", !.calls = @ \o <<tx>>,
                                  !.sendAnswer = [gasPrice |-> TRUE, send |-> ok],
                                  !.logged = IF ok THEN <<>>
                                             ELSE <<FailureMessage(tasks[t])>>,
                                  !.ret = tx.val]]
    /\ UNCHANGED instance
    /\ OnlyTasks

Finish(t) ==
    /\ tasks[t].pc = "done"
    /\ tasks' = [tasks EXCEPT ![t] = NoTask]
    /\ UNCHANGED instance
    /\ OnlyTasks

NextInterleaved ==
    \E t \in Tasks : Begin(t) \/ Estimate(t) \/ GasPrice(t) \/ Send(t) \/ Finish(t)

SpecInterleaved == Init /\ [][NextInterleaved]_vars

Next == Reads \/ Estimates \/ Writes \/ Prices \/ EventSignatures \/ Configs \/ Settle \/ Keep

Spec == Init /\ [][Next]_vars

(***************************************************************************)
(* What the claims speak of.                                               *)
(***************************************************************************)
ReadMethods ==
    {"sharesBalance", "getNumTokens", "getPoolSharesTotalSupply", "getCurrentTokens",
     "getFinalTokens", "getController", "getBaseToken", "getDatatoken", "getMarketFee",
     "getMarketFeeCollector", "getOPCCollector", "isBound", "getReserve", "isFinalized",
     "getSwapFee", "getNormalizedWeight", "getDenormalizedWeight",
     "getTotalDenormalizedWeight", "getMarketFees", "getCurrentMarketFees",
     "getCurrentOPCFees", "getCommunityFees"}
EstimateMethods ==
    {"estSetSwapFee", "estCollectOPC", "estCollectMarketFee", "estUpdatePublishMarketFee",
     "estSwapExactAmountIn", "estSwapExactAmountOut", "estJoinPool", "estExitPool",
     "estJoinswapExternAmountIn", "estExitswapPoolAmountIn"}
MutatingMethods ==
    {"setSwapFee", "collectOPC", "collectMarketFee", "updatePublishMarketFee",
     "swapExactAmountIn", "swapExactAmountOut", "joinPool", "exitPool",
     "joinswapExternAmountIn", "exitswapPoolAmountIn"}
CollectorCheckedMethods == {"collectMarketFee", "updatePublishMarketFee"}
SwapMethods == {"swapExactAmountIn", "swapExactAmountOut"}

\* positions in the log of the gas estimations and of the submissions
Estimations == {i \in DOMAIN calls : calls[i].kind = "estimateGas"}
Submissions == {i \in DOMAIN calls : calls[i].kind = "send"}
AllAnswered == \A i \in DOMAIN calls : calls[i].ok

(***************************************************************************)
(* C1.  For every read method: if the underlying contract call fails, the  *)
(* method logs an error and resolves to null, and no exception escapes.    *)
(* Stated as written; getMarketFee and getReserve raise, getCurrentFees    *)
(* getters resolve to undefined.                                           *)
(***************************************************************************)
C1_ReadFailureLogsAndReturnsNull ==
    (op \in ReadMethods /\ ~calls[1].ok)
        => (thrown = "" /\ ret = Null /\ logged # <<>>)

(***************************************************************************)
(* C2.  collectMarketFee and updatePublishMarketFee: whenever the caller   *)
(* differs from the fee-collector address read from the pool, the method   *)
(* raises 'Caller is not MarketFeeCollector' and has issued neither a gas  *)
(* estimation nor a submission.                                            *)
(***************************************************************************)
C2_UnauthorizedThrowsBeforeNetwork ==
    (op \in CollectorCheckedMethods /\ calls[1].val # Str(input.address))
        => /\ thrown = "Caller is not MarketFeeCollector"
           /\ Estimations = {}
           /\ Submissions = {}
           /\ calls[1].method = "_publishMarketCollector"

C2_Witness ==
    /\ op = "updatePublishMarketFee"
    /\ calls[1].ok
    /\ calls[1].val # Str(input.address)
    /\ thrown = "Caller is not MarketFeeCollector"
    /\ Len(calls) = 1

(***************************************************************************)
(* C3.  collectMarketFee and updatePublishMarketFee: when the caller       *)
(* equals the fee-collector address read from the pool and the network     *)
(* calls succeed, no error is raised, gas is estimated, exactly one        *)
(* transaction is submitted from the caller, after the estimation, and the *)
(* method resolves to that transaction's receipt.                          *)
(***************************************************************************)
C3_AuthorizedSubmitsOnce ==
    (op \in CollectorCheckedMethods /\ calls[1].val = Str(input.address) /\ AllAnswered)
        => /\ thrown = ""
           /\ Cardinality(Estimations) = 1
           /\ Cardinality(Submissions) = 1
           /\ \A e \in Estimations, t \in Submissions :
                /\ e < t
                /\ calls[t].from = input.address
                /\ calls[t].method = IF op = "collectMarketFee" THEN "collectMarketFee"
                                     ELSE "updatePublishMarketFee"
                /\ ret = calls[t].val
                /\ ret.t = "receipt"

C3_Witness ==
    /\ op = "collectMarketFee"
    /\ calls[1].val = Str(input.address)
    /\ AllAnswered
    /\ ret = Receipt("collectMarketFee")

(***************************************************************************)
(* C4.  The error 'Caller is not MarketFeeCollector' is raised only when   *)
(* the collector address was read successfully and differs from the        *)
(* caller; it is not raised when the read of the collector address fails.  *)
(* Stated as written; the code raises it on a failed read too.             *)
(***************************************************************************)
C4_NamedErrorOnlyAfterSuccessfulRead ==
    (op \in CollectorCheckedMethods /\ thrown = "Caller is not MarketFeeCollector")
        => (calls[1].ok /\ calls[1].val # Str(input.address))

(***************************************************************************)
(* C5.  Every gas-estimation method returns the network's estimate when    *)
(* the estimation call succeeds and exactly 1000000 when it fails; the     *)
(* failure never propagates to the caller.                                 *)
(***************************************************************************)
C5_EstimateOrDefault ==
    op \in EstimateMethods
        => /\ thrown = ""
           /\ Len(calls) = 1
           /\ calls[1].kind = "estimateGas"
           /\ calls[1].ok => ret = calls[1].val
           /\ ~calls[1].ok => ret = Num(1000000, 0)

C5_Witness ==
    /\ op = "estJoinPool"
    /\ ~calls[1].ok
    /\ ret = Num(1000000, 0)
    /\ thrown = ""

(***************************************************************************)
(* C6.  For every mutating method a failed gas estimation never blocks the *)
(* transaction: the method goes on to the submission (it reads the gas     *)
(* price and, once that is read, sends), with a gas limit of 1000000 or    *)
(* 1000001.                                                                *)
(***************************************************************************)
C6_FailedEstimateDoesNotBlock ==
    op \in MutatingMethods
        => \A e \in Estimations :
            ~calls[e].ok
                => /\ thrown = ""
                   /\ Len(calls) > e
                   /\ calls[e + 1].kind = "getGasPrice"
                   /\ calls[e + 1].ok
                        => /\ Len(calls) = e + 2
                           /\ calls[e + 2].kind = "send"
                           /\ calls[e + 2].method = calls[e].method
                           /\ calls[e + 2].gas \in {1000000, 1000001}

C6_Witness ==
    /\ op = "exitPool"
    /\ \E e \in Estimations : ~calls[e].ok
    /\ \E t \in Submissions : calls[t].gas = 1000000 /\ calls[t].ok

(***************************************************************************)
(* C7.  For every mutating method: if the transaction submission (send)    *)
(* fails, the error is logged and the method resolves to null instead of   *)
(* raising.                                                                *)
(***************************************************************************)
C7_FailedSendLogsAndReturnsNull ==
    (op \in MutatingMethods /\ \E t \in Submissions : ~calls[t].ok)
        => (thrown = "" /\ ret = Null /\ logged # <<>>)

C7_Witness ==
    /\ op = "swapExactAmountIn"
    /\ \E t \in Submissions : ~calls[t].ok
    /\ ret = Null
    /\ thrown = ""
    /\ logged = <<"ERROR: Failed to swap exact amount in">>

(***************************************************************************)
(* C8.  swapExactAmountIn, swapExactAmountOut (and their estimations, made *)
(* on the way): when the caller leaves maxPrice unset (absent, null or     *)
(* empty) the max-price argument is the maximum unsigned 256-bit integer,  *)
(* in the gas estimation and in the submitted transaction alike; when      *)
(* maxPrice is set, the argument is maxPrice scaled by 10^18.              *)
(***************************************************************************)
MaxPriceArgument(i) == calls[i].args[2].a[3]

C8_UnsetMaxPriceIsUnlimited ==
    op \in SwapMethods
        => /\ Estimations # {}
           /\ \A i \in Estimations \cup Submissions :
                IF input.amountsInOutMaxFee.maxPrice \in UnsetMaxPrices
                THEN MaxPriceArgument(i) =
                        Str("115792089237316195423570985008687907853269984665640564039457584007913129639934")
                ELSE MaxPriceArgument(i) =
                        Num(input.amountsInOutMaxFee.maxPrice.m,
                            input.amountsInOutMaxFee.maxPrice.e + 18)

C8_Witness ==
    /\ op = "swapExactAmountOut"
    /\ input.amountsInOutMaxFee.maxPrice = Undefined
    /\ \E e \in Estimations : MaxPriceArgument(e) = MaxUint256
    /\ \E t \in Submissions : MaxPriceArgument(t) = MaxUint256 /\ calls[t].ok

(***************************************************************************)
(* C9.  Each call is independent and idempotent in inputs and network      *)
(* responses: a swap leaves the caller's parameter object as it was, and   *)
(* the amounts it submits are the conversions of the amounts the caller    *)
(* put into that object, however often the object has been passed.         *)
(* Stated as written; the swaps write the converted amounts back into the  *)
(* object, so a second call with it converts them again.                   *)
(***************************************************************************)
AmountsArgument(i) == SubSeq(calls[i].args[2].a, 1, 2)
AmountsOf(amounts) ==
    IF IsAmountsIn(amounts) THEN <<amounts.tokenAmountIn, amounts.minAmountOut>>
    ELSE <<amounts.maxAmountIn, amounts.tokenAmountOut>>
DecimalsRead(i) == IF calls[i].ok THEN calls[i].val.m * (10 ^ calls[i].val.e) ELSE 18

C9_SwapLeavesObjectAndAmounts ==
    op \in SwapMethods
        => /\ amountsInOutMaxFee = input.amountsInOutMaxFee
           /\ \A i \in Estimations \cup Submissions :
                AmountsArgument(i) =
                    <<Scale(AmountsOf(built)[1], DecimalsRead(1)),
                      Scale(AmountsOf(built)[2], DecimalsRead(2))>>

(***************************************************************************)
(* C10.  joinPool and exitPool: with t the token list getFinalTokens       *)
(* returns, the limits array handed to the contract has exactly two        *)
(* entries, entry i being the caller's entry i converted to base units     *)
(* with the decimals of token t_i; further caller entries are ignored; the *)
(* gas estimation and the submission receive the same array.               *)
(***************************************************************************)
LimitsArgument(i) == calls[i].args[2].a

C10_LimitsConvertedByPosition ==
    (op \in {"joinPool", "exitPool"} /\ calls[1].ok)
        => /\ calls[1].method = "getFinalTokens"
           /\ Estimations # {}
           /\ \A k \in 1..2 :
                /\ calls[1 + k].kind = "call"
                /\ calls[1 + k].method = "decimals"
                /\ calls[1 + k].at = calls[1].val.a[k].s
           /\ \A i \in Estimations \cup Submissions :
                /\ Len(LimitsArgument(i)) = 2
                /\ \A k \in 1..2 :
                     calls[1 + k].ok
                        => LimitsArgument(i)[k] =
                              Num(input.amounts[k].m,
                                  input.amounts[k].e
                                    + calls[1 + k].val.m * (10 ^ calls[1 + k].val.e))
           /\ \A e \in Estimations, t \in Submissions :
                LimitsArgument(e) = LimitsArgument(t)

C10_Witness ==
    /\ op = "joinPool"
    /\ Len(input.amounts) = 3
    /\ calls[1].val = Arr(<<Str("0xBT"), Str("0xDT")>>)
    /\ calls[2].ok /\ calls[2].val = Num(6, 0)
    /\ calls[3].ok /\ calls[3].val = Num(18, 0)
    /\ \E t \in Submissions :
        /\ calls[t].ok
        /\ LimitsArgument(t) = <<Num(1, 6), Num(25, 17)>>

(***************************************************************************)
(* C11.  getSpotPrice rescales symmetrically in the decimals difference:   *)
(* for decimals (a, b) of tokenIn and tokenOut the raw price is divided by *)
(* 10^|a-b| when a > b and multiplied by 10^|a-b| when a < b, before the   *)
(* common division by 10^b.                                                *)
(* Stated as written; for a < b the code multiplies by 10^(2|a-b|).        *)
(***************************************************************************)
C11_SymmetricRescaling ==
    (op = "getSpotPrice" /\ AllAnswered)
        => LET a == calls[1].val.m * (10 ^ calls[1].val.e)
               b == calls[2].val.m * (10 ^ calls[2].val.e)
               raw == calls[3].val
           IN  ret = Num(raw.m, raw.e + (IF a > b THEN 0 - (a - b) ELSE b - a) - b)

(***************************************************************************)
(* C20.  getSpotPrice reads decimals() of tokenIn and of tokenOut on every *)
(* call; when either read fails the method does not raise and scales the   *)
(* price with 18 decimals for that token and with the value read for the   *)
(* other.                                                                  *)
(***************************************************************************)
C20_SpotPriceDecimalsDefault ==
    op = "getSpotPrice"
        => /\ thrown = ""
           /\ Len(calls) = 3
           /\ \A k \in 1..2 : calls[k].kind = "call" /\ calls[k].method = "decimals"
           /\ calls[1].at = input.tokenIn
           /\ calls[2].at = input.tokenOut
           /\ calls[3].ok
                => LET a == IF calls[1].ok THEN calls[1].val.m * (10 ^ calls[1].val.e) ELSE 18
                       b == IF calls[2].ok THEN calls[2].val.m * (10 ^ calls[2].val.e) ELSE 18
                       raw == calls[3].val
                   IN  ret = Num(raw.m, raw.e + (IF a > b THEN 0 - a ELSE 2 * (b - a) - b))

C20_Witness ==
    /\ op = "getSpotPrice"
    /\ ~calls[1].ok
    /\ calls[2].ok /\ calls[2].val = Num(6, 0)
    /\ calls[3].ok /\ calls[3].val = Num(2, 18)
    /\ thrown = ""
    /\ ret = Num(2, 0)

(***************************************************************************)
(* C12.  getConfig: for every network name that is not in the table the    *)
(* record returned has network equal to the name given and url,            *)
(* factoryAddress, oceanTokenAddress, metadataStoreUri and providerUri all *)
(* null; no error is raised.                                               *)
(***************************************************************************)
TableNames == {"development", "pacific", "rinkeby", "mainnet"}

C12_UnknownNetworkGivesNulls ==
    (op = "getConfig" /\ input.network \notin TableNames)
        => /\ thrown = ""
           /\ ret.network = Str(input.network)
           /\ \A f \in ConfigFields : ret[f] = Null

C12_Witness ==
    /\ op = "getConfig"
    /\ input.network = "ropsten"
    /\ ret.network = Str("ropsten")
    /\ ret.url = Null
    /\ ret.providerUri = Null

(***************************************************************************)
(* C13.  getConfig: for every name in the table (development, pacific,     *)
(* rinkeby, mainnet) the record returned has that network and the url,     *)
(* factoryAddress, oceanTokenAddress, metadataStoreUri and providerUri of  *)
(* the first table entry of that name; the match is exact, a name that     *)
(* differs in letter case or surrounding whitespace is an unknown name.    *)
(***************************************************************************)
C13_KnownNetworkGivesEntry ==
    op = "getConfig"
        => /\ input.network \in TableNames
                => \E i \in DOMAIN ConfigsDeclared :
                    /\ ConfigsDeclared[i].network = Str(input.network)
                    /\ \A j \in 1..(i - 1) : ConfigsDeclared[j].network # Str(input.network)
                    /\ ret.network = Str(input.network)
                    /\ \A f \in ConfigFields :
                        ret[f] = IF f \in DOMAIN ConfigsDeclared[i]
                                 THEN ConfigsDeclared[i][f] ELSE Undefined
           /\ input.network \in {"Development", " development", "mainnet "}
                => /\ ret.network = Str(input.network)
                   /\ \A f \in ConfigFields : ret[f] = Null

C13_Witness ==
    /\ op = "getConfig"
    /\ input.network = "rinkeby"
    /\ ret.network = Str("rinkeby")
    /\ ret.factoryAddress = Str("0xcDfEe5D80041224cDCe9AE2334E85B3236385EA3")
    /\ ret.providerUri = Str("https://provider.rinkeby.v3.dev-ocean.com/")

(***************************************************************************)
(* C14.  getConfig has no side effects: the table is never modified and    *)
(* every call gives a new record, so whatever getConfig calls and writes   *)
(* of the caller to records it was given have happened, getConfig(n)       *)
(* returns the field values the first getConfig(n) returned.               *)
(***************************************************************************)
C14_GetConfigHasNoSideEffects ==
    /\ configs = ConfigsDeclared
    /\ confighelp # NoObject => confighelp.entry = 0
    /\ (op = "getConfig" /\ firstConfig # NoObject /\ firstConfig.network = input.network)
            => ret = firstConfig.record

C14_Witness ==
    /\ op = "getConfig"
    /\ firstConfig # NoObject
    /\ firstConfig.network = "pacific"
    /\ input.network = "pacific"
    /\ firstConfig.again
    /\ ret.url = Str("https://pacific.oceanprotocol.com")
    /\ confighelp.record.url = Str("written")

(***************************************************************************)
(* C15.  No retry: one invocation of a mutating operation issues at most   *)
(* one gas estimation and at most one transaction submission, also when    *)
(* the estimation or the submission fails, and the estimation comes before *)
(* the submission.                                                         *)
(***************************************************************************)
C15_AtMostOneEstimateAndOneSend ==
    op \in MutatingMethods
        => /\ Cardinality(Estimations) <= 1
           /\ Cardinality(Submissions) <= 1
           /\ Cardinality({i \in DOMAIN calls : calls[i].kind = "getGasPrice"}) <= 1
           /\ \A e \in Estimations, t \in Submissions : e < t
           /\ Submissions # {} => Estimations # {}

C15_Witness ==
    /\ op = "joinswapExternAmountIn"
    /\ \E e \in Estimations : ~calls[e].ok
    /\ \E t \in Submissions : ~calls[t].ok
    /\ Cardinality(Estimations) = 1
    /\ Cardinality(Submissions) = 1
    /\ ret = Null

C19_SingleSidedUsesBaseToken ==
    (op \in {"joinswapExternAmountIn", "exitswapPoolAmountIn"} /\ calls[1].ok)
        => /\ calls[1].method = "getBaseTokenAddress"
           /\ calls[2].kind = "call"
           /\ calls[2].method = "decimals"
           /\ calls[2].at = calls[1].val.s
           /\ Estimations # {}
           /\ \A e \in Estimations, t \in Submissions : calls[e].args = calls[t].args
           /\ \A i \in Estimations \cup Submissions :
                /\ Len(calls[i].args) = 2
                /\ op = "joinswapExternAmountIn"
                    => /\ calls[i].args[2] =
                            Num(input.minPoolAmountOut.m, input.minPoolAmountOut.e + 18)
                       /\ calls[2].ok
                            => calls[i].args[1] =
                                Num(input.tokenAmountIn.m,
                                    input.tokenAmountIn.e
                                        + calls[2].val.m * (10 ^ calls[2].val.e))
                /\ op = "exitswapPoolAmountIn"
                    => /\ calls[i].args[1] =
                            Num(input.poolAmountIn.m, input.poolAmountIn.e + 18)
                       /\ calls[2].ok
                            => calls[i].args[2] =
                                Num(input.minTokenAmountOut.m,
                                    input.minTokenAmountOut.e
                                        + calls[2].val.m * (10 ^ calls[2].val.e))

C19_Witness ==
    /\ op = "exitswapPoolAmountIn"
    /\ calls[1].ok /\ calls[1].val = Str("0xBT")
    /\ calls[2].ok /\ calls[2].val = Num(6, 0)
    /\ input.minTokenAmountOut = Num(25, 0 - 1)
    /\ \E t \in Submissions :
        /\ calls[t].ok
        /\ calls[t].args = <<Num(1, 18), Num(25, 5)>>

(***************************************************************************)
(* C18.  getAmountInExactOut and getAmountOutExactIn are read-only: they   *)
(* never estimate gas or submit.  When the quote call succeeds they return *)
(* a record of exactly the five components tokenAmount,                    *)
(* liquidityProviderSwapFeeAmount, oceanFeeAmount,                         *)
(* publishMarketSwapFeeAmount and consumeMarketSwapFeeAmount, each got     *)
(* from its raw result field by a conversion of its own to human units;    *)
(* when the quote call fails they log and return null.                     *)
(***************************************************************************)
QuoteMethods == {"getAmountInExactOut", "getAmountOutExactIn"}

C18_QuotesAreReadOnlyAndItemized ==
    op \in QuoteMethods
        => /\ thrown = ""
           /\ \A i \in DOMAIN calls : calls[i].kind = "call"
           /\ calls[2].method = op
           /\ ~calls[2].ok => (ret = Null /\ logged # <<>> /\ Len(calls) = 2)
           /\ calls[2].ok
                => LET raw == calls[2].val.o
                       principal == IF op = "getAmountInExactOut" THEN raw.tokenAmountIn
                                    ELSE raw.tokenAmountOut
                       HumanUnits(units, k) ==
                            Num(units.m, units.e - DecimalsRead(k))
                   IN  /\ Len(calls) = 7
                       /\ \A k \in 3..7 : calls[k].method = "decimals"
                       /\ ret.t = "obj"
                       /\ DOMAIN ret.o = {"tokenAmount", "liquidityProviderSwapFeeAmount",
                                          "oceanFeeAmount", "publishMarketSwapFeeAmount",
                                          "consumeMarketSwapFeeAmount"}
                       /\ ret.o.tokenAmount = HumanUnits(principal, 3)
                       /\ ret.o.liquidityProviderSwapFeeAmount = HumanUnits(raw.lpFeeAmount, 4)
                       /\ ret.o.oceanFeeAmount = HumanUnits(raw.oceanFeeAmount, 5)
                       /\ ret.o.publishMarketSwapFeeAmount =
                            HumanUnits(raw.publishMarketSwapFeeAmount, 6)
                       /\ ret.o.consumeMarketSwapFeeAmount =
                            HumanUnits(raw.consumeMarketSwapFeeAmount, 7)

C18_Witness ==
    /\ op = "getAmountOutExactIn"
    /\ calls[2].ok
    /\ calls[2].val.o.tokenAmountOut = Num(25, 17)
    /\ \A k \in 3..7 : calls[k].ok /\ calls[k].val = Num(18, 0)
    /\ ret.o.tokenAmount = Num(25, 0 - 1)
    /\ ret.o.oceanFeeAmount = Num(2, 0 - 3)
    /\ ret.o.consumeMarketSwapFeeAmount = Num(4, 0 - 3)

(***************************************************************************)
(* C16.  A Pool instance holds no shared mutable state: after construction *)
(* no operation writes to poolAbi, web3, config or GASLIMIT_DEFAULT, so    *)
(* however operations given distinct arguments overlap on one instance,    *)
(* each issues the contract interactions and returns the result it does    *)
(* when run alone against the same network answers.                        *)
(***************************************************************************)
C16_NoSharedMutableState ==
    /\ instance = InstanceConstructed
    /\ \A t \in Tasks :
        tasks[t].pc = "done"
            => /\ tasks[t].calls = Alone(tasks[t]).calls
               /\ tasks[t].ret = Alone(tasks[t]).ret
               /\ tasks[t].logged = Alone(tasks[t]).logged

C16_Witness ==
    /\ tasks[1].pc = "done"
    /\ tasks[1].overlapped
    /\ tasks[1].method = "collectOPC"
    /\ tasks[1].ret = Receipt("collectOPC")
    /\ tasks[2].pc = "send"
    /\ tasks[2].overlapped
    /\ tasks[2].method = "setSwapFee"
    /\ ~tasks[2].estAnswer.ok

(***************************************************************************)
(* C22.  getSpotPrice follows the silent-null policy: when the pool's      *)
(* getSpotPrice call fails while the decimals of both tokens are read, the *)
(* method logs the error and resolves to null, not to a numeric string     *)
(* such as "0", and no exception escapes.                                  *)
(* Stated as written; the arithmetic after the catch turns the null price  *)
(* into 0 and the method resolves to "0".                                  *)
(***************************************************************************)
C22_SpotPriceFailureGivesNull ==
    (op = "getSpotPrice" /\ calls[1].ok /\ calls[2].ok /\ ~calls[3].ok)
        => (thrown = "" /\ logged # <<>> /\ ret = Null)

(***************************************************************************)
(* C24.  getSpotPrice rescales the raw price r: with decimalsIn >          *)
(* decimalsOut the result is r / 10^(decimalsIn - decimalsOut) /           *)
(* 10^decimalsOut; otherwise it is r * 10^(2 * (decimalsOut - decimalsIn)) *)
(* / 10^decimalsOut; so for equal decimals d it is r / 10^d.               *)
(***************************************************************************)
C24_SpotPriceRescaling ==
    (op = "getSpotPrice" /\ AllAnswered)
        => LET decimalsIn == calls[1].val.m * (10 ^ calls[1].val.e)
               decimalsOut == calls[2].val.m * (10 ^ calls[2].val.e)
               r == calls[3].val
           IN  /\ decimalsIn > decimalsOut
                    => ret = Num(r.m, r.e - (decimalsIn - decimalsOut) - decimalsOut)
               /\ decimalsIn <= decimalsOut
                    => ret = Num(r.m, r.e + 2 * (decimalsOut - decimalsIn) - decimalsOut)
               /\ decimalsIn = decimalsOut => ret = Num(r.m, r.e - decimalsIn)

C24_Witness ==
    /\ op = "getSpotPrice"
    /\ calls[1].ok /\ calls[1].val = Num(6, 0)
    /\ calls[2].ok /\ calls[2].val = Num(8, 0)
    /\ calls[3].ok /\ calls[3].val = Num(15, 17)
    /\ ret = Num(15, 13)

(***************************************************************************)
(* C23.  Failures before submission follow one policy: in joinPool and     *)
(* exitPool, when getFinalTokens fails and yields null, the operation logs *)
(* the failure, resolves to null without raising, and submits no           *)
(* transaction.                                                            *)
(* Stated as written; the loop that converts the limits indexes the null   *)
(* token list and the TypeError escapes.                                   *)
(***************************************************************************)
C23_FailedTokenListGivesNull ==
    (op \in {"joinPool", "exitPool"} /\ ~calls[1].ok)
        => (thrown = "" /\ ret = Null /\ logged # <<>> /\ Submissions = {})

(***************************************************************************)
(* C25.  Only collectMarketFee and updatePublishMarketFee check the        *)
(* caller.  Every other mutating operation reads no collector and never    *)
(* raises 'Caller is not MarketFeeCollector', whatever the caller address; *)
(* collectOPC always issues its gas estimation and goes on to the          *)
(* submission, and so does every other one that does not raise.            *)
(***************************************************************************)
C25_OnlyTwoMethodsCheckTheCaller ==
    (op \in MutatingMethods \ CollectorCheckedMethods)
        => /\ thrown # NotCollector
           /\ \A i \in DOMAIN calls :
                calls[i].method \notin {"_publishMarketCollector", "_opcCollector"}
           /\ (op = "collectOPC" \/ thrown = "")
                => /\ thrown = ""
                   /\ Cardinality(Estimations) = 1
                   /\ \E i \in DOMAIN calls :
                        /\ calls[i].kind = "getGasPrice"
                        /\ \A e \in Estimations : e < i
                        /\ calls[i].ok
                             => /\ i + 1 \in Submissions
                                /\ calls[i + 1].from = input.address

C25_Witness ==
    /\ op = "collectOPC"
    /\ input.address = "0xBob"
    /\ Len(calls) = 3
    /\ calls[1].kind = "estimateGas"
    /\ calls[3].kind = "send" /\ calls[3].from = "0xBob" /\ calls[3].ok
    /\ ret = Receipt("collectOPC")

(***************************************************************************)
(* C26.  For every mutating operation the paired gas estimation is invoked *)
(* with exactly the arguments of the submitted transaction (same values,   *)
(* same conversion) and the same sender, on a binding built from the same  *)
(* pool ABI.                                                               *)
(* Stated as written; setSwapFee estimates on the ERC20 template ABI with  *)
(* the fee as given and submits the fee in base units on the pool ABI.     *)
(***************************************************************************)
C26_EstimateMatchesSubmission ==
    op \in MutatingMethods
        => \A e \in Estimations, t \in Submissions :
             /\ calls[e].method = calls[t].method
             /\ calls[e].args = calls[t].args
             /\ calls[e].from = calls[t].from
             /\ calls[e].at = calls[t].at
             /\ calls[e].abi = calls[t].abi
             /\ calls[e].abi = "pool"

(***************************************************************************)
(* C27.  In the quotes the principal of getAmountInExactOut (the raw       *)
(* tokenAmountIn) is converted with tokenIn's decimals, the principal of   *)
(* getAmountOutExactIn (the raw tokenAmountOut) with tokenOut's decimals,  *)
(* and the four fee components of both with tokenIn's decimals.            *)
(* Stated as written; getAmountInExactOut converts its principal with      *)
(* tokenOut's decimals.                                                    *)
(***************************************************************************)
C27_QuoteDecimals ==
    (op \in QuoteMethods /\ calls[2].ok)
        => /\ Len(calls) = 7
           /\ calls[3].method = "decimals"
           /\ calls[3].at = (IF op = "getAmountInExactOut" THEN input.tokenIn
                             ELSE input.tokenOut)
           /\ \A i \in 4..7 : calls[i].method = "decimals" /\ calls[i].at = input.tokenIn

(***************************************************************************)
(* C28.  For every network name, each of the six fields of the record      *)
(* getConfig returns is a string or null, never undefined or absent.       *)
(* Stated as written; the development entry declares no oceanTokenAddress  *)
(* and the copy overwrites the null with undefined.                        *)
(***************************************************************************)
C28_ConfigFieldsAreStringOrNull ==
    op = "getConfig"
        => \A f \in ConfigFields \cup {"network"} :
             /\ f \in DOMAIN ret
             /\ ret[f].t \in {"str", "null"}

(***************************************************************************)
(* C21.  getSwapEventSignature, getJoinEventSignature and                  *)
(* getExitEventSignature each encode the topic of the ABI entry whose name *)
(* is LOG_SWAP, LOG_JOIN, LOG_EXIT respectively and whose type is 'event': *)
(* an entry with the right name and another type, or an event with another *)
(* name, is never the one encoded; on the default pool ABI the three       *)
(* operations select three different entries.                              *)
(***************************************************************************)
EventSignatureMethods ==
    {"getSwapEventSignature", "getJoinEventSignature", "getExitEventSignature"}
EventNameOf(method) ==
    CASE method = "getSwapEventSignature" -> "LOG_SWAP"
      [] method = "getJoinEventSignature" -> "LOG_JOIN"
      [] method = "getExitEventSignature" -> "LOG_EXIT"

C21_EventSignatureOfNamedEvent ==
    op \in EventSignatureMethods
        => LET abi == PoolAbiOf(input.poolAbi)
               matching == {k \in DOMAIN abi : /\ abi[k].name = EventNameOf(op)
                                               /\ abi[k].type = "event"}
           IN  /\ Len(calls) = 1
               /\ calls[1].kind = "encodeEventSignature"
               /\ matching # {}
                    => \E k \in matching :
                         /\ \A j \in matching : k <= j
                         /\ calls[1].args = <<abi[k]>>
                         /\ thrown = ""
                         /\ ret = [t |-> "topic",
                                   signature |-> <<abi[k].name>> \o abi[k].inputs]
               /\ matching = {} => calls[1].args = <<Undefined>>
               /\ input.poolAbi = Null
                    => /\ matching # {}
                       /\ \A m \in MissingEntryOutcomes :
                            LET swap == getSwapEventSignature(abi, m).calls[1].args[1]
                                join == getJoinEventSignature(abi, m).calls[1].args[1]
                                exit == getExitEventSignature(abi, m).calls[1].args[1]
                            IN  /\ {swap, join, exit} \subseteq {abi[k] : k \in DOMAIN abi}
                                /\ swap # join /\ join # exit /\ swap # exit

\* the event is found behind a function of the same name and an event of another
C21_Witness ==
    /\ op = "getSwapEventSignature"
    /\ input.poolAbi # Null
    /\ PoolAbiOf(input.poolAbi)[1].name = "LOG_SWAP"
    /\ PoolAbiOf(input.poolAbi)[1].type = "function"
    /\ calls[1].args = <<PoolAbiOf(input.poolAbi)[3]>>
    /\ ret = [t |-> "topic", signature |-> <<"LOG_SWAP", "address", "uint256">>]

====
